---- MODULE Spec2Model ----
(***************************************************************************)
(* Embedding-backed semantic search index of SGI_TextLibary_Manager.       *)
(*                                                                         *)
(* The module models                                                       *)
(*   - generateBatchEmbeddings / generateEmbedding                         *)
(*     (src/aicoreEmbeddingClient.js), the batch coordinator;              *)
(*   - loadLibraryEmbeddings / addTextsToLibrary on the 3-field CSV        *)
(*     (src/unnamed/part_001, second file), and                            *)
(*     DatabaseClient.generateMissingEmbeddings (src/databaseClient.js);   *)
(*   - loadLibraryEmbeddings with the JSON cache (src/unnamed/part_000 and *)
(*     src/unnamed/part_001, first file);                                  *)
(*   - getAccessToken (src/aicoreEmbeddingClient.js);                      *)
(*   - search of the in-memory index (src/unnamed/part_001) and            *)
(*     DatabaseClient.search (src/databaseClient.js), as the routes of     *)
(*     src/server.js call them;                                            *)
(*   - migrateToNewFormat, and formatCSVRow / parseCSVRow character by     *)
(*     character (src/unnamed/part_001, second file);                      *)
(*   - tokenize and the search of loadLibraryCsv (src/libraryIndex.js).    *)
(*                                                                         *)
(* Every await of the JavaScript code is a point where the model's action  *)
(* ends: one action is the synchronous code between two awaits.            *)
(***************************************************************************)
EXTENDS Integers, Sequences, FiniteSets, TLC

\* ------------------------------------------------------------------ bounds

\* Longest input list handed to generateBatchEmbeddings directly.
MaxTexts == 3
\* Largest batchSize option tried (the smallest is 1).
MaxBatchSize == 2
\* Largest maxRetries option tried (the smallest is 0).
MaxRetriesOpt == 2

\* ------------------------------------------------------------------ values

Null == "null"

\* No error raised / no answer received yet.
\* What an Error tells about the batch it was raised for: neither the message
\* of the provider's Error, which is re-thrown as it is, nor the message of
\* the Error raised after the last retry names a batch, an offset or a range,
\* and no property is added to either.
NoBatch == [known |-> FALSE, index |-> 0]
NoError == [kind |-> "none", status |-> 0, marker |-> FALSE, batch |-> NoBatch]
NoReply == [status |-> -1, shape |-> "none", marker |-> FALSE]
\* 'Failed to generate embeddings after max retries due to rate limiting'
ExhaustedError ==
  [kind |-> "exhausted", status |-> 0, marker |-> FALSE, batch |-> NoBatch]
\* The Error generateEmbedding threw for the provider's answer, re-thrown.
ProviderError(reply) ==
  [kind |-> "provider", status |-> reply.status, marker |-> reply.marker,
   batch |-> NoBatch]

\* A text is a sequence of characters.
Txt(k) == [j \in 1..k |-> "a"]

\* The input lists tried: n pairwise distinct texts, n = 0..MaxTexts.
InputTexts(n) == [k \in 1..n |-> Txt(k)]

\* text-embedding-3-small yields vectors of this many dimensions.
Dimensions == 1536

\* The vector the embedding model computes from text t.
Embed(t) == [src |-> t, dim |-> Dimensions]

\* A vector that belongs to none of the texts sent.
ExtraVector == [src |-> <<"?">>, dim |-> Dimensions]

\* No vector: null (an empty array is treated alike wherever it is read).
NoVector == [src |-> <<>>, dim |-> 0]

\* ------------------------------------------------- coordinator: variables

VARIABLES
  gpc,            \* position of generateBatchEmbeddings
  texts,          \* its argument
  batchSize, delayMs, maxRetries, initialWaitMs,   \* its options
  i,              \* the for loop's offset
  retries,        \* the retry counter of the current batch
  embeddings,     \* the accumulated output
  inflight,       \* offsets of the batches whose provider call is outstanding
  thrown,         \* the error the call raised, or NoError
  log,            \* history: the answered provider calls of the batch answered last
  succeeded,      \* history: the offsets of the batches that succeeded, in order
  lastReply,      \* history: the provider's last answer, or NoReply
  timer           \* the delay in ms of the setTimeout awaited, 0 when none is

coordVars == <<gpc, texts, batchSize, delayMs, maxRetries, initialWaitMs, i,
               retries, embeddings, inflight, thrown, log, succeeded,
               lastReply, timer>>

\* ------------------------------------------------------ stores: variables

VARIABLES
  backend,        \* the deployment: "csv" (3-field file), "db" (PostgreSQL), "none"
  csv,            \* the data rows of the 3-field CSV file, as parsed fields
  header,         \* the first line of the 3-field CSV file
  db,             \* the rows of table text_library
  lpc,            \* position of loadLibraryEmbeddings / addTextsToLibrary
  docs,           \* loadLibraryEmbeddings: docs
  lemb,           \* loadLibraryEmbeddings: embeddings (NoVector: placeholder)
  indicesNeedingEmbeddings,   \* loadLibraryEmbeddings
  index,          \* what the last load returned: docs and finalEmbeddings
  dpc,            \* position of DatabaseClient.generateMissingEmbeddings
  idsToProcess,   \* generateMissingEmbeddings
  pending,        \* generateMissingEmbeddings: the vectors to write and the
                  \* number of UPDATEs done in the open transaction
  snapshot,       \* history: the persisted store (the file, the rows, the
                  \* cache file) when the current run began
  lastWrite,      \* history: how the file write of the last load ended, or
                  \* that the write of the last append failed
  faulted,        \* history: a file write has failed (the behaviours followed
                  \* have one failed write at most)
  serial,         \* the last value of the sequence behind text_library.id
  other,          \* a call of addTextsToLibrary (or of DatabaseClient.addTexts,
                  \* on its own connection) running beside the first: its
                  \* position, the maxId it read, the rows it added, its docs
                  \* (the rows it selected), embeddings and indices
  addCtx          \* history: the store's vectors and the texts of the last append

storeVars == <<backend, csv, header, db, lpc, docs, lemb, indicesNeedingEmbeddings,
               index, dpc, idsToProcess, pending, snapshot, lastWrite, faulted, serial,
               other, addCtx>>

\* -------------------------------------------- JSON cache: variables

VARIABLES
  cvariant,       \* the embeddingIndex.js in use: "local" (in-process model) or "aicore"
  store2,         \* the data rows of the 2-field CSV file, as parsed fields
  cacheFile,      \* the file library_embeddings.json
  cpc,            \* position of loadLibraryEmbeddings (JSON-cache variant)
  cindex,         \* what the last load returned, and whether from the cache
  written,        \* history: what the load returned whose cache write succeeded last
  cread           \* history: what the load under way, or the load that returned
                  \* last, read from the cache file (nothing once the file is
                  \* written anew)

cacheVars == <<cvariant, store2, cacheFile, cpc, cindex, written, cread>>

\* -------------------------------------------- access token: variables

VARIABLES
  tokenCache,     \* the module's tokenCache: token and expiresAt
  now,            \* Date.now()
  tpc,            \* per caller: position in getAccessToken
  held,           \* per caller: the token getAccessToken returned to it
  issued,         \* history: the token requests answered so far
  grant           \* history: the last token granted, when, and its lifetime

tokVars == <<tokenCache, now, tpc, held, issued, grant>>

\* -------------------------------------------- search: variables

VARIABLES
  spc,            \* per request: position of search(query, limit)
  sreq,           \* per request: query, limit, and the query vector received
  sres,           \* per request: what search resolved or rejected with
  dbClient        \* the database server's client: "null", or where its start is

searchVars == <<spc, sreq, sres, dbClient>>

\* -------------------------------------------- functions applied on their own

VARIABLES
  call,           \* the function applied and its arguments
  ret             \* what it returned, once it has

pureVars == <<call, ret>>

\* Everything that is not a variable of generateBatchEmbeddings.
driverVars == <<storeVars, cacheVars, tokVars, searchVars, pureVars>>

\* ------------------------------------------- the provider and the HTTP layer

\* What the embeddings endpoint (or the token endpoint before it) can answer.
\*   status 200: a body {data: [...]} whose list is right, one short, one long,
\*               or a body without data ("malformed");
\*   status 429 / 500: an error body that holds the text TooManyRequest or not;
\*   status 401: the token request was refused (getAccessToken throws);
\*   status 0:   no response at all (network error, 60 s timeout).
Replies ==
  [status : {200}, shape : {"right", "short", "long", "malformed"}, marker : {FALSE}]
  \cup [status : {429, 500}, shape : {"error"}, marker : BOOLEAN]
  \cup [status : {401, 0}, shape : {"error"}, marker : {FALSE}]

\* data.data.map(item => item.embedding) for the answer's shape.
ResponseVectors(shape, batch) ==
  LET right == [k \in 1..Len(batch) |-> Embed(batch[k])] IN
  CASE shape = "right" -> right
    [] shape = "short" -> SubSeq(right, 1, Len(right) - 1)
    [] shape = "long"  -> Append(right, ExtraVector)

\* generateEmbedding(batch) given the provider's answer: the array of vectors,
\* or the Error it throws; hasMarker says whether the Error's message holds
\* the text TooManyRequest (the message embeds the response body).
generateEmbedding(reply, batch) ==
  IF reply.status = 200 /\ reply.shape # "malformed"
  THEN [ok |-> TRUE, vectors |-> ResponseVectors(reply.shape, batch),
        hasMarker |-> FALSE]
  ELSE [ok |-> FALSE, vectors |-> <<>>,
        hasMarker |-> (reply.status \notin {200, 401, 0}) /\ reply.marker]

\* Mutant: every error is taken for a rate-limit error and retried.
IsRateLimitAny(res) == ~res.ok

\* error.message && error.message.includes('TooManyRequest')
IsRateLimit(res) == res.hasMarker

\* texts.slice(i, i + batchSize)
Min(a, b) == IF a < b THEN a ELSE b
Slice(ts, off, size) == SubSeq(ts, off + 1, Min(off + size, Len(ts)))

\* Mutant: one attempt too many (retries <= maxRetries).
RetryAllowedOffByOne(r, m) == r <= m

\* while (retries < maxRetries && !batchEmbeddings), with batchEmbeddings null
RetryAllowed(r, m) == r < m

\* Seconds waited after a rate-limit failure.
BackoffBase == 30

\* Mutant: every wait is one BackoffBase long.
WaitTimeFlat(r) == BackoffBase

\* const waitTime = retries * 30, with retries already incremented
WaitTime(r) == r * BackoffBase

\* Mutant: the delay follows the last batch too.
PauseDueAlways(off, size, ts, dl) == dl > 0

\* i + batchSize < texts.length && delayMs > 0
PauseDue(off, size, ts, dl) == off + size < Len(ts) /\ dl > 0

\* Mutant: the loop skips a batch.
NextOffsetSkip(off, size) == off + 2 * size

\* the for loop's increment, i += batchSize
NextOffset(off, size) == off + size

\* ------------------------------------------------- coordinator: the steps

\* The while loop's head for the batch at off, before a provider call: either
\* the call is issued, or the retries are exhausted and the call throws.
\* fl: the provider calls still outstanding at this point.
WhileHead(off, r, m, fl) ==
  /\ i' = off
  /\ retries' = r
  /\ timer' = 0
  /\ IF RetryAllowed(r, m)
     THEN /\ gpc' = "call"
          /\ inflight' = fl \cup {off}
          /\ thrown' = NoError
     ELSE /\ gpc' = "threw"
          /\ inflight' = fl
          /\ thrown' = ExhaustedError

\* The for loop's head: the next batch starts with retries = 0, or the loop is
\* over and the accumulated embeddings are returned.
LoopHead(off, ts, m, fl) ==
  IF off < Len(ts)
  THEN WhileHead(off, 0, m, fl)
  ELSE /\ gpc' = "returned"
       /\ timer' = 0
       /\ i' = off
       /\ retries' = retries
       /\ inflight' = fl
       /\ thrown' = NoError

\* generateBatchEmbeddings(ts, options) up to its first await.
Enter(ts, bs, dl, mr, iw) ==
  /\ gpc = "idle"
  /\ texts' = ts
  /\ batchSize' = bs
  /\ delayMs' = dl
  /\ maxRetries' = mr
  /\ initialWaitMs' = iw
  /\ embeddings' = <<>>
  /\ log' = <<>>
  /\ succeeded' = <<>>
  /\ lastReply' = NoReply
  /\ IF iw > 0
     THEN /\ gpc' = "warmup"
          /\ timer' = iw
          /\ i' = 0
          /\ retries' = 0
          /\ inflight' = {}
          /\ thrown' = NoError
     ELSE LoopHead(0, ts, mr, {})

\* The warm-up timer fires.
WarmupElapsed ==
  /\ gpc = "warmup"
  /\ LoopHead(0, texts, maxRetries, inflight)
  /\ UNCHANGED <<texts, batchSize, delayMs, maxRetries, initialWaitMs,
                 embeddings, log, succeeded, lastReply, driverVars>>

\* The awaited generateEmbedding(batch) settles with the provider's answer.
ProviderReply(reply) ==
  /\ gpc = "call"
  /\ i \in inflight
  /\ LET batch == Slice(texts, i, batchSize)
         res   == generateEmbedding(reply, batch)
         fl    == inflight \ {i}
         sofar == IF log # <<>> /\ log[1].off = i THEN log ELSE <<>>
     IN
     /\ lastReply' = reply
     /\ IF res.ok
        THEN /\ embeddings' = embeddings \o res.vectors
             /\ log' = Append(sofar, [off |-> i, res |-> "ok"])
             /\ succeeded' = Append(succeeded, i)
             /\ IF PauseDue(i, batchSize, texts, delayMs)
                THEN /\ gpc' = "pause"
                     /\ timer' = delayMs
                     /\ inflight' = fl
                     /\ UNCHANGED <<i, retries, thrown>>
                ELSE LoopHead(NextOffset(i, batchSize), texts, maxRetries, fl)
        ELSE IF IsRateLimit(res)
        THEN /\ retries' = retries + 1
             /\ log' = Append(sofar, [off |-> i, res |-> "rateLimit"])
             /\ gpc' = "backoff"
             /\ timer' = WaitTime(retries') * 1000
             /\ inflight' = fl
             /\ UNCHANGED <<i, embeddings, thrown, succeeded>>
        ELSE /\ thrown' = ProviderError(reply)
             /\ log' = Append(sofar, [off |-> i, res |-> "hard"])
             /\ gpc' = "threw"
             /\ timer' = 0
             /\ inflight' = fl
             /\ UNCHANGED <<i, retries, embeddings, succeeded>>
  /\ UNCHANGED <<texts, batchSize, delayMs, maxRetries, initialWaitMs,
                 driverVars>>

\* The backoff timer (retries * 30 s) fires: the while condition is evaluated.
BackoffElapsed ==
  /\ gpc = "backoff"
  /\ WhileHead(i, retries, maxRetries, inflight)
  /\ UNCHANGED <<texts, batchSize, delayMs, maxRetries, initialWaitMs,
                 embeddings, log, succeeded, lastReply, driverVars>>

\* The inter-batch timer (delayMs) fires: the for loop goes on.
PauseElapsed ==
  /\ gpc = "pause"
  /\ LoopHead(NextOffset(i, batchSize), texts, maxRetries, inflight)
  /\ UNCHANGED <<texts, batchSize, delayMs, maxRetries, initialWaitMs,
                 embeddings, log, succeeded, lastReply, driverVars>>

CoordInit ==
  /\ gpc = "idle"
  /\ texts = <<>>
  /\ batchSize = 1
  /\ delayMs = 0
  /\ maxRetries = 0
  /\ initialWaitMs = 0
  /\ i = 0
  /\ retries = 0
  /\ embeddings = <<>>
  /\ inflight = {}
  /\ thrown = NoError
  /\ log = <<>>
  /\ succeeded = <<>>
  /\ lastReply = NoReply
  /\ timer = 0

\* ------------------------------------------------- the 3-field CSV store

\* Most data rows kept in a store, and most texts appended by one call.
MaxRows == 2
MaxNew == 2
\* Most lines of a library file: a text of two lines can be appended as the
\* last of MaxRows rows.
MaxLines == MaxRows + 1
\* The batchSize the drivers pass (default 100; 20 for the database), scaled
\* down to the stores of MaxRows rows.
LoadBatchSize == 1
DbBatchSize == 1

\* The other default options of generateBatchEmbeddings, and the options
\* generateMissingEmbeddings passes.
DefaultBatchSize == 100
DefaultDelayMs == 1000
DefaultMaxRetries == 5
DefaultInitialWaitMs == 10000
DbDelayMs == 5000
DbMaxRetries == 3
DbInitialWaitMs == 5000

\* The characters that matter to the row format.
Quote == "\""
Comma == ","
LF == "\n"

\* The texts an editor types into a row: a plain text, and a text with
\* leading white space.
EditTexts == {<<"a">>, <<" ", "b">>}
\* The texts a caller appends: the empty text, a plain text, and a text of
\* two lines with leading white space and a comma in its second line.
TextDomain == {<<>>, <<"a">>, <<" ", "b", LF, "c", Comma, "d">>}

\* String.prototype.trim
RECURSIVE TrimLeft(_)
TrimLeft(t) ==
  IF t # <<>> /\ Head(t) = " " THEN TrimLeft(Tail(t)) ELSE t
RECURSIVE TrimRight(_)
TrimRight(t) ==
  IF t # <<>> /\ t[Len(t)] = " " THEN TrimRight(SubSeq(t, 1, Len(t) - 1)) ELSE t
Trim(t) == TrimRight(TrimLeft(t))

\* An id is a string of decimal digits: its number n and its length w; the
\* empty string has w = 0.
EmptyId == [n |-> 0, w |-> 0]
IdWidth == 8
\* String(n)
StringOf(n) == [n |-> n, w |-> IF n < 10 THEN 1 ELSE 2]
\* String(n).padStart(8, '0')
PadStart(id) == [n |-> id.n, w |-> IF id.w < IdWidth THEN IdWidth ELSE id.w]
\* parseInt(id, 10), with 0 standing for NaN (ids are compared with maxId >= 0)
ParseInt(id) == IF id.w = 0 THEN 0 ELSE id.n

\* The embedding field of a row as parseCSVRow returns it: the empty string,
\* or the JSON text of an array.
EmptyField == [kind |-> "empty", val |-> NoVector]
\* formatCSVRow's embeddingStr, read back by parseCSVRow
FormatEmbedding(v) ==
  IF v.dim > 0 THEN [kind |-> "json", val |-> v] ELSE EmptyField
\* Mutant: no stored embedding is taken as valid.
ParseEmbeddingNone(f) == NoVector

\* JSON.parse(embeddingStr), null unless a non-empty array
ParseEmbedding(f) ==
  IF f.kind = "json" /\ f.val.dim > 0 THEN f.val ELSE NoVector

\* The fields parseCSVRow reads from the line formatCSVRow(id, text, embedding)
\* writes (a single-line text: the quoting of commas and quotes is undone).
formatCSVRow(id, text, embedding) ==
  [id |-> id, text |-> text, emb |-> FormatEmbedding(embedding)]

\* An embedding field that was cut while it was written: JSON.parse throws on
\* it and the row is taken to have no embedding.
CutField == [kind |-> "cut", val |-> NoVector]

\* Mutant: quotes are written as they are.
EscapeQuotesNot(t) == t

\* text.replace(/"/g, '""')
RECURSIVE EscapeQuotes(_)
EscapeQuotes(t) ==
  IF t = <<>> THEN <<>>
  ELSE (IF Head(t) = Quote THEN <<Quote, Quote>> ELSE <<Head(t)>>)
       \o EscapeQuotes(Tail(t))

\* The while loop of parseCSVRow from position pos (1-based here).
RECURSIVE ParseFrom(_, _, _, _, _)
ParseFrom(row, pos, current, inQuotes, res) ==
  IF pos > Len(row) THEN Append(res, current)
  ELSE LET char == row[pos]
           nextIsQuote == pos + 1 <= Len(row) /\ row[pos + 1] = Quote
       IN IF char = Quote
          THEN IF inQuotes /\ nextIsQuote
               THEN ParseFrom(row, pos + 2, Append(current, Quote), inQuotes, res)
               ELSE ParseFrom(row, pos + 1, current, ~inQuotes, res)
          ELSE IF char = Comma /\ ~inQuotes
          THEN ParseFrom(row, pos + 1, <<>>, inQuotes, Append(res, current))
          ELSE ParseFrom(row, pos + 1, Append(current, char), inQuotes, res)

\* parseCSVRow(row)
parseCSVRow(row) == ParseFrom(row, 1, <<>>, FALSE, <<>>)

\* The embedding field of a line that formatCSVRow did not write as a whole:
\* none or the empty string, or characters JSON.parse throws on.
LineEmbedding(f) == IF f = <<>> THEN EmptyField ELSE CutField

\* The id field of a line that does not start with a number: parseInt gives
\* NaN for it (0 here, as for the empty string).
LineId(f) == IF f = <<>> THEN EmptyId ELSE [n |-> 0, w |-> Len(f), str |-> f]

\* buf.split(/\r?\n/): the pieces of a string between its line breaks.
RECURSIVE SplitLines(_, _)
SplitLines(str, current) ==
  IF str = <<>> THEN <<current>>
  ELSE IF Head(str) = LF THEN <<current>> \o SplitLines(Tail(str), <<>>)
  ELSE SplitLines(Tail(str), Append(current, Head(str)))

\* const [id, text, embeddingStr] = parseCSVRow(line), for the fields after
\* the id: text and embeddingStr are undefined (none here) when the line has
\* no such field.
LineFields(id, fields) ==
  [id   |-> id,
   text |-> IF Len(fields) >= 1 THEN fields[1] ELSE <<>>,
   emb  |-> IF Len(fields) >= 2 THEN LineEmbedding(fields[2]) ELSE EmptyField]

\* The lines csvContent += formatCSVRow(newId, newText, null) + '\n' adds to
\* the file, as the split of the next read finds them, each with the fields
\* parseCSVRow reads from it: up to the first line break of the text the line
\* of the id, with the text so far and no embedding field; after it one line
\* for each piece that is not empty (filter(Boolean)), read as a row of its
\* own, the last with the closing quote and the empty embedding field.
AppendedLines(id, newText) ==
  LET rest   == <<Comma, Quote>> \o EscapeQuotes(newText)
                \o <<Quote, Comma, Quote, Quote>>
      pieces == SplitLines(rest, <<>>)
      more   == SelectSeq(Tail(pieces), LAMBDA piece : piece # <<>>)
  IN <<LineFields(id, Tail(parseCSVRow(pieces[1])))>>
     \o [j \in 1..Len(more) |->
           LET fields == parseCSVRow(more[j])
           IN LineFields(LineId(fields[1]), Tail(fields))]

\* The lines of the texts tried: but for the id of the first line they are
\* the same for every id.
LinesTried == [newText \in TextDomain |-> AppendedLines(EmptyId, newText)]

\* The lines added for the texts from the k-th on, ids counted from maxId.
RECURSIVE AddedLines(_, _, _)
AddedLines(maxId, newTexts, k) ==
  IF k > Len(newTexts) THEN <<>>
  ELSE [LinesTried[newTexts[k]] EXCEPT ![1].id = PadStart(StringOf(maxId + k))]
       \o AddedLines(maxId, newTexts, k + 1)

\* if (embedding) { ... } else { this text needs an embedding }
NeedsEmbedding(e) == e = NoVector

\* The parse loop of loadLibraryEmbeddings over the data rows.
RECURSIVE ParseRows(_, _)
ParseRows(rows, acc) ==
  IF rows = <<>> THEN acc
  ELSE LET row == Head(rows) IN
       IF row.text = <<>>
       THEN ParseRows(Tail(rows), acc)
       ELSE LET doc == [id   |-> IF row.id = EmptyId
                                 THEN StringOf(Len(acc.docs) + 1) ELSE row.id,
                        text |-> Trim(row.text)]
                e   == ParseEmbedding(row.emb)
            IN ParseRows(Tail(rows),
                 [docs |-> Append(acc.docs, doc),
                  emb  |-> Append(acc.emb, IF NeedsEmbedding(e) THEN NoVector ELSE e),
                  need |-> IF NeedsEmbedding(e)
                           THEN Append(acc.need, Len(acc.docs) + 1)
                           ELSE acc.need])
Parsed(rows) == ParseRows(rows, [docs |-> <<>>, emb |-> <<>>, need |-> <<>>])

\* The vectors a file holds for its documents, row by row (NoVector where the
\* embedding field is empty or not a non-empty array).
StoredVectors(rows) ==
  LET kept == SelectSeq(rows, LAMBDA row : row.text # <<>>)
  IN [k \in 1..Len(kept) |-> ParseEmbedding(kept[k].emb)]

NoIndex == [ready |-> FALSE, docs |-> <<>>, embeddings |-> <<>>]
NoOther == [pc |-> "idle", maxId |-> 0, added |-> <<>>, docs |-> <<>>,
            emb |-> <<>>, need |-> <<>>]
NoAdd == [active |-> FALSE, full |-> FALSE, old |-> <<>>, new |-> <<>>,
          maxId |-> 0, rows |-> <<>>, at |-> <<>>]

\* No load and no embedding run is under way.
Resting ==
  /\ lpc \in {"idle", "returned", "failed"}
  /\ dpc \in {"idle", "done", "failed"}
  /\ cpc \in {"idle", "returned", "failed"}

\* generateBatchEmbeddings is over: its variables go back to their start
\* values; the error it raised (the driver re-throws it) and the history of
\* its batches stay until the next call.
CoordReset ==
  /\ gpc' = "idle"
  /\ timer' = 0
  /\ texts' = <<>>
  /\ batchSize' = 1
  /\ delayMs' = 0
  /\ maxRetries' = 0
  /\ initialWaitMs' = 0
  /\ i' = 0
  /\ retries' = 0
  /\ embeddings' = <<>>
  /\ inflight' = {}
  /\ log' = <<>>
  /\ lastReply' = NoReply
  /\ UNCHANGED <<thrown, succeeded>>

\* loadLibraryEmbeddings(csvPath) on the file's rows, up to its first await.
LoadBegin(hdr, file) ==
  LET p  == IF hdr.kind = "ok" THEN Parsed(file) ELSE Parsed(<<>>)
      tn == [k \in 1..Len(p.need) |-> p.docs[p.need[k]].text]
  IN /\ docs' = p.docs
     /\ lemb' = p.emb
     /\ indicesNeedingEmbeddings' = p.need
     /\ snapshot' = file
     /\ lastWrite' = "none"
     /\ IF hdr.kind # "ok"
        THEN /\ gpc = "idle"
             /\ lpc' = "failed"
             /\ index' = NoIndex
             /\ UNCHANGED coordVars
        ELSE IF Len(tn) > 0
        THEN /\ Enter(tn, LoadBatchSize, DefaultDelayMs, DefaultMaxRetries,
                      DefaultInitialWaitMs)
             /\ lpc' = "loading"
             /\ index' = NoIndex
        ELSE /\ gpc = "idle"
             /\ lpc' = "returned"
             /\ index' = [ready |-> TRUE, docs |-> p.docs, embeddings |-> p.emb]
             /\ UNCHANGED coordVars

\* The server (or a script) loads the library.
LoadStart ==
  /\ backend = "csv"
  /\ Resting
  /\ LoadBegin(header, csv)
  /\ addCtx' = NoAdd
  /\ UNCHANGED <<faulted, serial, other, backend, csv, header, db, dpc, idsToProcess, pending, cacheVars, tokVars,
                 searchVars, pureVars>>

\* 10 to the power of k
RECURSIVE Pow10(_)
Pow10(k) == IF k = 0 THEN 1 ELSE 10 * Pow10(k - 1)

\* The first j characters of an id.
CutId(id, j) ==
  IF "str" \in DOMAIN id THEN [id EXCEPT !.w = j, !.str = SubSeq(id.str, 1, j)]
  ELSE [n |-> id.n \div Pow10(id.w - j), w |-> j]

\* What a line can hold when the write stopped inside it or at its end: the
\* first characters of the id and nothing else (for parseInt a smaller number,
\* or zeros), a part of the text or all of it and no embedding field, the
\* text and a cut embedding field, or the whole row, its last quote or its
\* newline missing.
CutRows(row) ==
  {[id |-> CutId(row.id, j), text |-> <<>>, emb |-> EmptyField] :
     j \in 1..(row.id.w - 1)}
  \cup
  {[row EXCEPT !.text = SubSeq(row.text, 1, j), !.emb = EmptyField] :
     j \in 0..Len(row.text)}
  \cup (IF row.emb.kind = "json" THEN {[row EXCEPT !.emb = CutField]} ELSE {})
  \cup {row}

\* The first line of the file: 'id,text,embedding', nothing (a file of 0
\* bytes, or of empty lines), a part of the header, or a row (the file was
\* appended to when it had no line).
HeaderOk == [kind |-> "ok", line |-> <<>>]
NoHeader == [kind |-> "none", line |-> <<>>]
CutHeader == [kind |-> "cut", line |-> <<>>]
RowHeader(row) == [kind |-> "row", line |-> <<row>>]

\* fs.writeFileSync(csvPath, content) that throws: the file could not be
\* opened and is as it was, or it was truncated when it was opened and holds
\* the beginning of the new content: nothing, a part of its first line, or
\* its first line and rows, the last one possibly cut.
FailedWrite(hdr, file, newHdr, newFile) ==
  {[header |-> hdr, rows |-> file]}
  \cup {[header |-> h, rows |-> <<>>] : h \in {NoHeader, CutHeader}}
  \cup {[header |-> newHdr, rows |-> SubSeq(newFile, 1, n)] :
          n \in 0..(Len(newFile) - 1)}
  \cup UNION {{[header |-> newHdr, rows |-> Append(SubSeq(newFile, 1, n - 1), r)] :
                 r \in CutRows(newFile[n])} : n \in 1..Len(newFile)}

\* let csvContent = buf.endsWith('\n') ? buf : buf + '\n', then the rows: on
\* a file without a line the first row added becomes the first line.
AppendedHeader(hdr, added) ==
  IF hdr.kind = "none" THEN RowHeader(added[1]) ELSE hdr
AppendedRows(hdr, file, added) ==
  IF hdr.kind = "none" THEN Tail(added) ELSE file \o added

\* Mutant: the number of rows is taken for the highest id.
MaxIdCount(rows) == Len(rows)

\* The highest numeric id of the file's rows.
RECURSIVE MaxId(_)
MaxId(rows) ==
  IF rows = <<>> THEN 0
  ELSE LET rest == MaxId(Tail(rows))
           n    == ParseInt(Head(rows).id)
       IN IF n > rest THEN n ELSE rest

\* addTextsToLibrary(csvPath, newTexts): the rows are appended with an empty
\* embedding, the file is written, and loadLibraryEmbeddings runs on it. The
\* write is outside any try block: when it throws, the call is rejected
\* before the load is entered.
AddTexts ==
  /\ backend = "csv"
  /\ Resting
  /\ \E m \in 1..(MaxRows - Len(csv)) : \E newTexts \in [1..m -> TextDomain] :
     \E writeOk \in BOOLEAN :
       /\ m <= MaxNew
       /\ LET maxId == MaxId(csv)
              added == AddedLines(maxId, newTexts, 1)
              before == StoredVectors(csv)
              newHdr == AppendedHeader(header, added)
              newFile == AppendedRows(header, csv, added)
          IN /\ Len(csv) + Len(added) <= MaxLines
             /\ IF writeOk
                THEN /\ faulted' = faulted
                     /\ csv' = newFile
                     /\ header' = newHdr
                     /\ addCtx' = [active |-> newHdr.kind = "ok",
                                   full   |-> \A k \in DOMAIN before :
                                                before[k] # NoVector,
                                   old    |-> before,
                                   new    |-> newTexts,
                                   maxId  |-> maxId,
                                   rows   |-> <<>>,
                                   at     |-> [k \in 1..m |->
                                                Len(newFile) + 1 -
                                                Len(AddedLines(maxId, newTexts, k))]]
                     /\ LoadBegin(newHdr, newFile)
                ELSE /\ ~faulted
                     /\ faulted' = TRUE
                     /\ \E w \in FailedWrite(header, csv, newHdr, newFile) :
                          /\ csv' = w.rows
                          /\ header' = w.header
                     /\ addCtx' = NoAdd
                     /\ snapshot' = csv
                     /\ lastWrite' = "append failed"
                     /\ lpc' = "failed"
                     /\ index' = NoIndex
                     /\ gpc = "idle"
                     /\ UNCHANGED <<docs, lemb, indicesNeedingEmbeddings,
                                    coordVars>>
  /\ UNCHANGED <<serial, other, backend, db, dpc, idsToProcess, pending, cacheVars, tokVars,
                 searchVars, pureVars>>

\* Mutant: the file is rewritten with what was computed even when the run failed.
PersistedAfterLoadAlways(ok, file, newFile) == newFile

\* The try block of loadLibraryEmbeddings: the file is rewritten only after
\* generateBatchEmbeddings returned and the counts matched.
PersistedAfterLoad(ok, file, newFile) == IF ok THEN newFile ELSE file

\* embeddings[indicesNeedingEmbeddings[j]] = newEmbeddings[j]
Merged(old, need, new) ==
  [k \in 1..Len(old) |->
     IF \E j \in 1..Min(Len(need), Len(new)) : need[j] = k
     THEN new[CHOOSE j \in 1..Min(Len(need), Len(new)) : need[j] = k]
     ELSE old[k]]

\* The awaited generateBatchEmbeddings settles: loadLibraryEmbeddings goes on
\* to its end. The rewrite of the file (fs.writeFileSync) is inside the try
\* block: when it throws, the catch re-throws and the load fails, and the file
\* is what the failed write left.
LoadFinish ==
  /\ lpc = "loading"
  /\ gpc \in {"returned", "threw"}
  /\ \E writeOk \in BOOLEAN :
       LET ok      == gpc = "returned" /\ Len(embeddings) = Len(texts)
           merged  == Merged(lemb, indicesNeedingEmbeddings, embeddings)
           newFile == [k \in 1..Len(docs) |->
                         formatCSVRow(docs[k].id, docs[k].text, merged[k])]
           final   == SelectSeq(merged, LAMBDA e : e # NoVector)
           saved == ok /\ writeOk
       IN /\ ~ok => writeOk
          /\ ~writeOk => ~faulted
          /\ faulted' = (faulted \/ ~writeOk)
          /\ \E w \in (IF ok /\ ~writeOk
                      THEN FailedWrite(header, csv, HeaderOk, newFile)
                      ELSE {[header |-> IF saved THEN HeaderOk ELSE header,
                             rows   |-> PersistedAfterLoad(saved, csv, newFile)]}) :
               /\ csv' = w.rows
               /\ header' = w.header
          /\ snapshot' = IF saved THEN newFile ELSE snapshot
          /\ lastWrite' = IF ~ok THEN "none"
                          ELSE IF writeOk THEN "saved" ELSE "failed"
          /\ IF saved /\ Len(final) = Len(docs)
             THEN /\ lpc' = "returned"
                  /\ index' = [ready |-> TRUE, docs |-> docs, embeddings |-> final]
             ELSE /\ lpc' = "failed"
                  /\ index' = NoIndex
  /\ CoordReset
  /\ docs' = <<>>
  /\ lemb' = <<>>
  /\ indicesNeedingEmbeddings' = <<>>
  /\ UNCHANGED <<serial, other, backend, db, dpc, idsToProcess, addCtx, pending, cacheVars, tokVars,
                 searchVars, pureVars>>

\* addTextsToLibrary(csvPath, newTexts) is called while a load of the same
\* file awaits the provider: the file is read, the rows are appended, the file
\* is written, and the call's own loadLibraryEmbeddings parses the file and
\* awaits generateBatchEmbeddings in turn. When the write throws, or the load
\* finds no header, the call is rejected there.
ConcurrentAdd ==
  /\ backend = "csv"
  /\ lpc = "loading"
  /\ other.pc = "idle"
  /\ Len(csv) + 1 <= MaxRows
  /\ \E newText \in TextDomain \ {<<>>} : \E writeOk \in BOOLEAN :
       /\ LET added == AddedLines(MaxId(csv), <<newText>>, 1)
              newHdr == AppendedHeader(header, added)
              newFile == AppendedRows(header, csv, added)
              p == Parsed(newFile)
          IN /\ Len(csv) + Len(added) <= MaxLines
             /\ IF writeOk
                THEN /\ faulted' = faulted
                     /\ csv' = newFile
                     /\ header' = newHdr
                     /\ other' = IF newHdr.kind = "ok"
                                 THEN [pc |-> "loading", maxId |-> MaxId(csv),
                                       added |-> added, docs |-> p.docs,
                                       emb |-> p.emb, need |-> p.need]
                                 ELSE NoOther
                ELSE /\ ~faulted
                     /\ faulted' = TRUE
                     /\ \E w \in FailedWrite(header, csv, newHdr, newFile) :
                          /\ csv' = w.rows
                          /\ header' = w.header
                     /\ other' = NoOther
  /\ UNCHANGED <<serial, backend, db, lpc, docs, lemb, indicesNeedingEmbeddings, index,
                 dpc, idsToProcess, pending, snapshot, lastWrite, addCtx,
                 coordVars, cacheVars, tokVars, searchVars, pureVars>>

\* The generateBatchEmbeddings of that call settles: it returned the vectors
\* of its texts, or it threw; on success the call rewrites the file with the
\* documents it had parsed, and that write can throw.
ConcurrentFinish ==
  /\ backend = "csv"
  /\ other.pc = "loading"
  /\ \E ok \in BOOLEAN :
       LET new     == [j \in 1..Len(other.need) |->
                         Embed(other.docs[other.need[j]].text)]
           merged  == Merged(other.emb, other.need, new)
           newFile == [k \in 1..Len(other.docs) |->
                         formatCSVRow(other.docs[k].id, other.docs[k].text,
                                      merged[k])]
       IN \E writeOk \in BOOLEAN :
            /\ ~ok => writeOk
            /\ ~writeOk => ~faulted
            /\ faulted' = (faulted \/ ~writeOk)
            /\ \E w \in (IF ~ok THEN {[header |-> header, rows |-> csv]}
                        ELSE IF writeOk THEN {[header |-> HeaderOk, rows |-> newFile]}
                        ELSE FailedWrite(header, csv, HeaderOk, newFile)) :
                 /\ csv' = w.rows
                 /\ header' = w.header
  /\ other' = NoOther
  /\ UNCHANGED <<serial, backend, db, lpc, docs, lemb, indicesNeedingEmbeddings, index,
                 dpc, idsToProcess, pending, snapshot, lastWrite, addCtx,
                 coordVars, cacheVars, tokVars, searchVars, pureVars>>

\* library.csv is a file the users maintain: between two loads a row's text is
\* changed with an editor, the rest of the row (its embedding field) is kept.
ExternalEdit ==
  /\ backend = "csv"
  /\ Resting
  /\ \E p \in DOMAIN csv : \E t \in EditTexts :
       /\ csv[p].emb # EmptyField
       /\ Trim(t) # Trim(csv[p].text)
       /\ csv' = [csv EXCEPT ![p].text = t]
  /\ header' = header
  /\ snapshot' = csv'
  /\ lpc' = "idle"
  /\ index' = NoIndex
  /\ addCtx' = NoAdd
  /\ UNCHANGED <<other, lastWrite, faulted, serial, backend, db, docs, lemb, indicesNeedingEmbeddings, dpc,
                 idsToProcess, coordVars, pending, cacheVars, tokVars,
                 searchVars, pureVars>>

\* ------------------------------------------------- the PostgreSQL store

\* SELECT id, text FROM text_library WHERE embedding IS NULL ORDER BY id
MissingRows(rows) == SelectSeq(rows, LAMBDA r : r.embedding = NoVector)

\* generateMissingEmbeddings() up to its await on generateBatchEmbeddings:
\* pool.connect() and the SELECT of the rows without embedding. When the
\* connection cannot be made or the SELECT fails the call is rejected at once.
DbGenBegin(rows) ==
  \E selectOk \in BOOLEAN :
    LET sel == MissingRows(rows) IN
    /\ snapshot' = rows
    /\ IF ~selectOk
       THEN /\ gpc = "idle"
            /\ dpc' = "failed"
            /\ idsToProcess' = <<>>
            /\ UNCHANGED coordVars
       ELSE IF Len(sel) = 0
       THEN /\ gpc = "idle"
            /\ dpc' = "done"
            /\ idsToProcess' = <<>>
            /\ UNCHANGED coordVars
       ELSE /\ Enter([k \in 1..Len(sel) |-> sel[k].text], DbBatchSize,
                     DbDelayMs, DbMaxRetries, DbInitialWaitMs)
            /\ dpc' = "embedding"
            /\ idsToProcess' = [k \in 1..Len(sel) |-> sel[k].id]

\* The server starts generateMissingEmbeddings in the background when rows
\* lack an embedding (migrate-to-postgres.js does the same after its inserts).
DbGenStart ==
  /\ backend = "db"
  /\ Resting
  /\ Len(MissingRows(db)) > 0
  /\ DbGenBegin(db)
  /\ addCtx' = NoAdd
  /\ UNCHANGED <<other, lastWrite, faulted, serial, backend, csv, header, db, lpc, docs, lemb, indicesNeedingEmbeddings,
                 index, pending, cacheVars, tokVars,
                 searchVars, pureVars>>

\* The highest all-digit original_id of the table.
RECURSIVE DbMaxId(_)
DbMaxId(rows) ==
  IF rows = <<>> THEN 0
  ELSE LET rest == DbMaxId(Tail(rows))
           n    == ParseInt(Head(rows).original_id)
       IN IF n > rest THEN n ELSE rest

\* The sequence of text_library.id is not counted beyond this value.
MaxSerial == MaxRows + 1

\* The rows and the sequence values that the transactions under way can
\* still take: a transaction is begun only when the table and the sequence
\* have room for it.
FirstRowsOpen == IF dpc = "tx" THEN Len(addCtx.new) ELSE 0
FirstSerialOpen == IF dpc = "tx" THEN Len(addCtx.new) - Len(addCtx.rows) ELSE 0
OtherRowsOpen == IF other.pc \in {"tx", "inserted"} THEN 1 ELSE 0
OtherSerialOpen == IF other.pc = "tx" THEN 1 ELSE 0

\* The table once a transaction that inserted the rows added has committed:
\* the rows in the order of their ids.
RECURSIVE MergeById(_, _)
MergeById(rows, added) ==
  IF added = <<>> THEN rows
  ELSE IF rows = <<>> THEN added
  ELSE IF Head(rows).id < Head(added).id
  THEN <<Head(rows)>> \o MergeById(Tail(rows), added)
  ELSE <<Head(added)>> \o MergeById(rows, Tail(added))

\* DatabaseClient.addTexts(texts) up to its first INSERT: BEGIN, and the
\* SELECT of the highest all-digit original_id. The transaction reads the
\* rows committed by then; another session can commit before the INSERTs.
DbAddTexts ==
  /\ backend = "db"
  /\ Resting
  /\ \E m \in 1..MaxNew : \E newTexts \in [1..m -> TextDomain] :
       /\ Len(db) + m + OtherRowsOpen <= MaxRows
       /\ serial + m + OtherSerialOpen <= MaxSerial
       /\ addCtx' = [NoAdd EXCEPT !.new = newTexts, !.maxId = DbMaxId(db)]
  /\ dpc' = "tx"
  /\ idsToProcess' = <<>>
  /\ gpc = "idle"
  /\ UNCHANGED <<other, lastWrite, faulted, serial, backend, csv, header, db, lpc, docs, lemb,
                 indicesNeedingEmbeddings, index, pending, snapshot, coordVars,
                 cacheVars, tokVars, searchVars, pureVars>>

\* One INSERT of addTexts, with the original_id computed from the maxId it
\* read; the id is the next value of the sequence. The row is not committed.
\* A failing INSERT rolls back and addTexts throws; the sequence keeps the
\* values it gave out, and the failing INSERT may have taken one.
DbAddInsert ==
  /\ backend = "db"
  /\ dpc = "tx"
  /\ Len(addCtx.rows) < Len(addCtx.new)
  /\ \E insertOk \in BOOLEAN :
       LET k == Len(addCtx.rows) + 1
           added == [id          |-> serial + 1,
                     original_id |-> PadStart(StringOf(addCtx.maxId + k)),
                     text        |-> addCtx.new[k],
                     embedding   |-> NoVector]
       IN IF insertOk
          THEN /\ addCtx' = [addCtx EXCEPT !.rows = Append(@, added)]
               /\ serial' = serial + 1
               /\ UNCHANGED <<dpc, snapshot>>
          ELSE /\ addCtx' = NoAdd
               /\ serial' \in {serial, serial + 1}
               /\ snapshot' = db
               /\ dpc' = "failed"
  /\ UNCHANGED <<other, lastWrite, faulted, backend, csv, header, db, lpc, docs, lemb,
                 indicesNeedingEmbeddings, index, idsToProcess, pending,
                 coordVars, cacheVars, tokVars, searchVars, pureVars>>

\* The COMMIT of addTexts: the rows it inserted join the table. A failing
\* COMMIT rolls back and addTexts throws.
DbAddCommit ==
  /\ backend = "db"
  /\ dpc = "tx"
  /\ Len(addCtx.rows) = Len(addCtx.new)
  /\ \E commitOk \in BOOLEAN :
       LET before == [k \in 1..Len(db) |-> db[k].embedding]
       IN IF commitOk
          THEN /\ db' = MergeById(db, addCtx.rows)
               /\ addCtx' = [addCtx EXCEPT
                               !.active = TRUE,
                               !.full = \A k \in DOMAIN before : before[k] # NoVector,
                               !.old = before]
               /\ snapshot' = db'
               /\ dpc' = "committed"
          ELSE /\ db' = db
               /\ addCtx' = NoAdd
               /\ snapshot' = db
               /\ dpc' = "failed"
  /\ UNCHANGED <<other, lastWrite, faulted, serial, backend, csv, header, lpc, docs, lemb,
                 indicesNeedingEmbeddings, index, idsToProcess, pending,
                 coordVars, cacheVars, tokVars, searchVars, pureVars>>

\* The generateMissingEmbeddings() that addTexts awaits after its COMMIT, up
\* to its await on generateBatchEmbeddings: the rows it selects are those
\* that lack an embedding by then, whoever inserted them.
DbAddEmbed ==
  /\ backend = "db"
  /\ dpc = "committed"
  /\ DbGenBegin(db)
  /\ UNCHANGED <<other, lastWrite, faulted, serial, backend, csv, header, db, lpc, docs, lemb,
                 indicesNeedingEmbeddings, index, pending, addCtx, cacheVars,
                 tokVars, searchVars, pureVars>>

\* The UPDATE loop of generateMissingEmbeddings: row idsToProcess[k] gets
\* embeddings[k], for every k the returned list has.
Updated(rows, ids, new) ==
  [r \in 1..Len(rows) |->
     IF \E k \in 1..Min(Len(ids), Len(new)) : ids[k] = rows[r].id
     THEN [rows[r] EXCEPT !.embedding =
             new[CHOOSE k \in 1..Min(Len(ids), Len(new)) : ids[k] = rows[r].id]]
     ELSE rows[r]]

\* No transaction is open.
NoTx == [new |-> <<>>, k |-> 0]

\* Mutant: BEGIN is missing, every UPDATE is committed on its own.
CommittedAfterUpdateAutocommit(rows, updatedRows) == updatedRows

\* What the table holds for other sessions after an UPDATE of the loop: the
\* UPDATE runs between BEGIN and COMMIT, the committed rows are as before.
CommittedAfterUpdate(rows, updatedRows) == rows

\* The awaited generateBatchEmbeddings settles: the transaction is begun, or
\* the error is re-thrown after a ROLLBACK.
DbGenFinish ==
  /\ dpc = "embedding"
  /\ gpc \in {"returned", "threw"}
  /\ \E beginOk \in BOOLEAN :
       IF gpc = "returned" /\ beginOk
       THEN /\ dpc' = "writing"
            /\ pending' = [new |-> embeddings, k |-> 0]
            /\ UNCHANGED idsToProcess
       ELSE /\ dpc' = "failed"
            /\ pending' = NoTx
            /\ idsToProcess' = <<>>
  /\ CoordReset
  /\ UNCHANGED <<other, lastWrite, faulted, serial, backend, csv, header, db, lpc, docs, lemb, indicesNeedingEmbeddings,
                 index, snapshot, addCtx, cacheVars, tokVars, searchVars,
                 pureVars>>

\* One pass of the UPDATE loop: row idsToProcess[k] gets embeddings[k] inside
\* the transaction; a failing UPDATE rolls the transaction back.
DbUpdateStep ==
  /\ dpc = "writing"
  /\ pending.k < Len(pending.new)
  /\ \E updateOk \in BOOLEAN :
       IF updateOk
       THEN /\ pending' = [pending EXCEPT !.k = @ + 1]
            /\ db' = CommittedAfterUpdate(db,
                       Updated(db, SubSeq(idsToProcess, 1,
                                          Min(pending.k + 1, Len(idsToProcess))),
                               SubSeq(pending.new, 1, pending.k + 1)))
            /\ UNCHANGED <<dpc, idsToProcess>>
       ELSE /\ dpc' = "failed"
            /\ pending' = NoTx
            /\ idsToProcess' = <<>>
            /\ UNCHANGED db
  /\ UNCHANGED <<other, lastWrite, faulted, serial, backend, csv, header, lpc, docs, lemb, indicesNeedingEmbeddings,
                 index, snapshot, addCtx, coordVars, cacheVars, tokVars,
                 searchVars, pureVars>>

\* COMMIT after the loop: the updated rows become the table's rows; a failing
\* COMMIT rolls back.
DbCommit ==
  /\ dpc = "writing"
  /\ pending.k = Len(pending.new)
  /\ \E commitOk \in BOOLEAN :
       IF commitOk
       THEN /\ db' = Updated(db, idsToProcess, pending.new)
            /\ dpc' = "done"
            /\ snapshot' = db'
       ELSE /\ dpc' = "failed"
            /\ UNCHANGED <<db, snapshot>>
  /\ pending' = NoTx
  /\ idsToProcess' = <<>>
  /\ UNCHANGED <<other, lastWrite, faulted, serial, backend, csv, header, lpc, docs, lemb, indicesNeedingEmbeddings,
                 index, addCtx, coordVars, cacheVars, tokVars, searchVars,
                 pureVars>>

\* ------------------------------------------------- migrate-to-postgres.js

\* The parse loop of migrateCSVToPostgres: rows whose text is missing or blank
\* are skipped; a row without id gets the count of valid rows plus one.
RECURSIVE PgParseRows(_, _)
PgParseRows(rows, acc) ==
  IF rows = <<>> THEN acc
  ELSE LET row == Head(rows) IN
       IF row.text = <<>> \/ Trim(row.text) = <<>>
       THEN PgParseRows(Tail(rows), acc)
       ELSE PgParseRows(Tail(rows),
              Append(acc, [original_id |-> IF row.id = EmptyId
                                           THEN StringOf(Len(acc) + 1)
                                           ELSE row.id,
                           text        |-> Trim(row.text),
                           embedding   |-> ParseEmbedding(row.emb)]))

\* The rows of the table once the first n of the parsed rows are inserted,
\* with the n values the sequence gave after base.
PgInserted(rows, parsed, n, base) ==
  rows \o [k \in 1..n |-> [id          |-> base + k,
                           original_id |-> parsed[k].original_id,
                           text        |-> parsed[k].text,
                           embedding   |-> parsed[k].embedding]]

\* Mutant: the ROLLBACK is missing, the inserts made so far stay.
RolledBackNot(before, inTx) == inTx

\* ROLLBACK: the table is as it was at BEGIN.
RolledBack(before, inTx) == before

\* migrateCSVToPostgres up to its first await: DATABASE_URL is set and the
\* file exists, the client is made and initialize() is called.
PgMigrateStart ==
  /\ backend = "db"
  /\ dpc = "idle"
  /\ dpc' = "initializing"
  /\ pending' = NoTx
  /\ snapshot' = db
  /\ UNCHANGED <<backend, csv, header, db, lpc, docs, lemb, indicesNeedingEmbeddings,
                 index, idsToProcess, lastWrite, faulted, serial, other, addCtx, coordVars,
                 cacheVars, tokVars, searchVars, pureVars>>

\* The file is read and parsed: with no valid row the migration returns,
\* else it asks the pool for a connection.
PgParsed ==
  LET parsed == PgParseRows(csv, <<>>) IN
  IF Len(parsed) = 0
  THEN /\ dpc' = "nodata"
       /\ pending' = NoTx
  ELSE /\ dpc' = "connecting"
       /\ pending' = [new |-> parsed, k |-> 0]

\* initialize() settles: the schema is there and getStats() is called, or
\* the migration fails (the outer catch: process.exit(1)).
PgInitialized ==
  /\ backend = "db"
  /\ dpc = "initializing"
  /\ \E initOk \in BOOLEAN : dpc' = IF initOk THEN "counting" ELSE "failed"
  /\ pending' = NoTx
  /\ UNCHANGED <<backend, csv, header, db, lpc, docs, lemb, indicesNeedingEmbeddings,
                 index, idsToProcess, snapshot, lastWrite, faulted, serial, other, addCtx, coordVars,
                 cacheVars, tokVars, searchVars, pureVars>>

\* getStats() settles: it failed; or the table has rows and the user is
\* asked whether to go on; or the table is empty and the file is parsed.
PgCounted ==
  /\ backend = "db"
  /\ dpc = "counting"
  /\ \E statsOk \in BOOLEAN :
       IF ~statsOk
       THEN /\ dpc' = "failed"
            /\ pending' = NoTx
       ELSE IF Len(db) > 0
       THEN /\ dpc' = "asking"
            /\ pending' = NoTx
       ELSE PgParsed
  /\ UNCHANGED <<backend, csv, header, db, lpc, docs, lemb, indicesNeedingEmbeddings,
                 index, idsToProcess, snapshot, lastWrite, faulted, serial, other, addCtx, coordVars,
                 cacheVars, tokVars, searchVars, pureVars>>

\* The user answers: with anything but y or yes the migration is cancelled.
PgAnswered ==
  /\ backend = "db"
  /\ dpc = "asking"
  /\ \E yes \in BOOLEAN :
       IF yes
       THEN PgParsed
       ELSE /\ dpc' = "cancelled"
            /\ pending' = NoTx
  /\ UNCHANGED <<backend, csv, header, db, lpc, docs, lemb, indicesNeedingEmbeddings,
                 index, idsToProcess, snapshot, lastWrite, faulted, serial, other, addCtx, coordVars,
                 cacheVars, tokVars, searchVars, pureVars>>

\* pool.connect() settles: BEGIN is sent, or the migration fails (no
\* transaction is open, nothing is rolled back).
PgConnected ==
  /\ backend = "db"
  /\ dpc = "connecting"
  /\ \E connectOk \in BOOLEAN :
       IF connectOk
       THEN /\ dpc' = "beginning"
            /\ UNCHANGED pending
       ELSE /\ dpc' = "failed"
            /\ pending' = NoTx
  /\ UNCHANGED <<backend, csv, header, db, lpc, docs, lemb, indicesNeedingEmbeddings,
                 index, idsToProcess, snapshot, lastWrite, faulted, serial, other, addCtx, coordVars,
                 cacheVars, tokVars, searchVars, pureVars>>

\* BEGIN settles: the first INSERT follows; a failing BEGIN goes to the
\* catch: ROLLBACK, and the error is re-thrown.
PgBegun ==
  /\ backend = "db"
  /\ dpc = "beginning"
  /\ \E beginOk \in BOOLEAN :
       IF beginOk
       THEN /\ dpc' = "migrating"
            /\ UNCHANGED pending
       ELSE /\ dpc' = "rolledback"
            /\ pending' = NoTx
  /\ UNCHANGED <<backend, csv, header, db, lpc, docs, lemb, indicesNeedingEmbeddings,
                 index, idsToProcess, snapshot, lastWrite, faulted, serial, other, addCtx, coordVars,
                 cacheVars, tokVars, searchVars, pureVars>>

\* One INSERT of the loop, inside the transaction; a failing INSERT goes to
\* the catch: ROLLBACK, and the error is re-thrown.
PgInsertStep ==
  /\ dpc = "migrating"
  /\ pending.k < Len(pending.new)
  /\ \E insertOk \in BOOLEAN :
       IF insertOk
       THEN /\ pending' = [pending EXCEPT !.k = @ + 1]
            /\ serial' = serial + 1
            /\ UNCHANGED <<db, dpc>>
       ELSE /\ db' = RolledBack(db, PgInserted(db, pending.new, pending.k, serial - pending.k))
            /\ dpc' = "rolledback"
            /\ serial' \in {serial, serial + 1}
            /\ pending' = NoTx
  /\ UNCHANGED <<backend, csv, header, lpc, docs, lemb, indicesNeedingEmbeddings,
                 index, idsToProcess, snapshot, lastWrite, faulted, other, addCtx,
                 coordVars, cacheVars, tokVars, searchVars, pureVars>>

\* COMMIT after the loop; a failing COMMIT goes to the catch as well.
PgCommit ==
  /\ dpc = "migrating"
  /\ pending.k = Len(pending.new)
  /\ \E commitOk \in BOOLEAN :
       IF commitOk
       THEN /\ db' = PgInserted(db, pending.new, pending.k, serial - pending.k)
            /\ dpc' = "migrated"
       ELSE /\ db' = RolledBack(db, PgInserted(db, pending.new, pending.k, serial - pending.k))
            /\ dpc' = "rolledback"
  /\ pending' = NoTx
  /\ UNCHANGED <<backend, csv, header, lpc, docs, lemb, indicesNeedingEmbeddings,
                 index, idsToProcess, snapshot, lastWrite, faulted, serial, other, addCtx,
                 coordVars, cacheVars, tokVars, searchVars, pureVars>>

\* After the inserts: generateMissingEmbeddings when getStats counts rows
\* without an embedding; when getStats fails the migration is rejected.
PgEmbed ==
  /\ dpc = "migrated"
  /\ gpc = "idle"
  /\ \E statsOk \in BOOLEAN :
       IF ~statsOk
       THEN /\ dpc' = "failed"
            /\ UNCHANGED <<idsToProcess, snapshot, coordVars>>
       ELSE IF Len(MissingRows(db)) > 0
       THEN DbGenBegin(db)
       ELSE /\ dpc' = "done"
            /\ UNCHANGED <<idsToProcess, snapshot, coordVars>>
  /\ UNCHANGED <<backend, csv, header, db, lpc, docs, lemb, indicesNeedingEmbeddings,
                 index, pending, lastWrite, faulted, serial, other, addCtx, cacheVars, tokVars,
                 searchVars, pureVars>>

\* The last getStats() of the migration, after the embeddings (if any were
\* missing): the migration is over, or it fails.
PgEndStats ==
  /\ backend = "db"
  /\ dpc = "done"
  /\ gpc = "idle"
  /\ \E statsOk \in BOOLEAN : dpc' = IF statsOk THEN "finished" ELSE "failed"
  /\ UNCHANGED <<backend, csv, header, db, lpc, docs, lemb, indicesNeedingEmbeddings,
                 index, idsToProcess, pending, snapshot, lastWrite, faulted, serial, other,
                 addCtx, coordVars, cacheVars, tokVars, searchVars, pureVars>>

\* A second call of DatabaseClient.addTexts, on another connection of the
\* pool: BEGIN and the SELECT of the highest original_id. The isolation level
\* is PostgreSQL's default (READ COMMITTED); the SELECT takes no lock.
DbOtherRead ==
  /\ backend = "db"
  /\ other.pc \in {"idle", "done"}
  /\ Len(db) + 1 + FirstRowsOpen <= MaxRows
  /\ serial + 1 + FirstSerialOpen <= MaxSerial
  /\ other' = [NoOther EXCEPT !.pc = "tx", !.maxId = DbMaxId(db)]
  /\ UNCHANGED <<backend, csv, header, db, lpc, docs, lemb, indicesNeedingEmbeddings,
                 index, dpc, idsToProcess, pending, snapshot, lastWrite, faulted, serial, addCtx,
                 coordVars, cacheVars, tokVars, searchVars, pureVars>>

\* The INSERT of the second call, with the original_id computed from the
\* maxId it read and the next value of the sequence as id. A failing INSERT
\* rolls back.
DbOtherInsert ==
  /\ backend = "db"
  /\ other.pc = "tx"
  /\ \E insertOk \in BOOLEAN :
       IF insertOk
       THEN LET added == [id          |-> serial + 1,
                          original_id |-> PadStart(StringOf(other.maxId + 1)),
                          text        |-> <<"a">>,
                          embedding   |-> NoVector]
            IN /\ serial' = serial + 1
               /\ other' = [other EXCEPT !.pc = "inserted",
                                         !.added = <<added>>]
       ELSE /\ serial' \in {serial, serial + 1}
            /\ other' = NoOther
  /\ UNCHANGED <<backend, csv, header, db, lpc, docs, lemb, indicesNeedingEmbeddings,
                 index, dpc, idsToProcess, pending, snapshot, lastWrite,
                 faulted, addCtx, coordVars, cacheVars, tokVars, searchVars,
                 pureVars>>

\* The COMMIT of the second call: its row joins the table; a failing COMMIT
\* rolls back.
DbOtherCommit ==
  /\ backend = "db"
  /\ other.pc = "inserted"
  /\ \E commitOk \in BOOLEAN :
       IF commitOk
       THEN /\ db' = MergeById(db, other.added)
            /\ other' = [other EXCEPT !.pc = "committed"]
       ELSE /\ db' = db
            /\ other' = NoOther
  /\ UNCHANGED <<backend, csv, header, lpc, docs, lemb, indicesNeedingEmbeddings,
                 index, dpc, idsToProcess, pending, snapshot, lastWrite,
                 faulted, serial, addCtx, coordVars, cacheVars, tokVars, searchVars,
                 pureVars>>

\* The generateMissingEmbeddings() the second call awaits, up to its await on
\* generateBatchEmbeddings, with the rows its SELECT ... WHERE embedding IS
\* NULL returns; with no such row, or when the connection or the SELECT
\* fails, the call is over.
DbOtherSelect ==
  /\ backend = "db"
  /\ other.pc = "committed"
  /\ \E selectOk \in BOOLEAN :
       IF selectOk /\ Len(MissingRows(db)) > 0
       THEN other' = [other EXCEPT !.pc = "embedding",
                                   !.docs = MissingRows(db)]
       ELSE other' = NoOther
  /\ UNCHANGED <<backend, csv, header, db, lpc, docs, lemb, indicesNeedingEmbeddings,
                 index, dpc, idsToProcess, pending, snapshot, lastWrite,
                 faulted, serial, addCtx, coordVars, cacheVars, tokVars, searchVars,
                 pureVars>>

\* The second call's generateBatchEmbeddings settles. When it returned, the
\* texts of the rows selected have been sent, and the UPDATE loop writes
\* embeddings[k] to row idsToProcess[k] for every k the returned list has (a
\* short answer of the provider leaves the last rows as they were); its
\* transaction is committed. When it threw, or an UPDATE or the COMMIT
\* failed, nothing is written.
DbOtherFinish ==
  /\ backend = "db"
  /\ other.pc = "embedding"
  /\ \E ok \in BOOLEAN : \E n \in 0..Len(other.docs) :
       IF ok
       THEN /\ db' = Updated(db, [k \in 1..Len(other.docs) |-> other.docs[k].id],
                             [k \in 1..n |-> Embed(other.docs[k].text)])
            /\ other' = [other EXCEPT !.pc = "done"]
       ELSE /\ n = 0
            /\ db' = db
            /\ other' = NoOther
  /\ UNCHANGED <<backend, csv, header, lpc, docs, lemb, indicesNeedingEmbeddings,
                 index, dpc, idsToProcess, pending, snapshot, lastWrite, faulted, serial, addCtx,
                 coordVars, cacheVars, tokVars, searchVars, pureVars>>

StoreIdle ==
  /\ csv = <<>>
  /\ db = <<>>
  /\ lpc = "idle"
  /\ docs = <<>>
  /\ lemb = <<>>
  /\ indicesNeedingEmbeddings = <<>>
  /\ index = NoIndex
  /\ dpc = "idle"
  /\ idsToProcess = <<>>
  /\ pending = NoTx
  /\ snapshot = <<>>
  /\ lastWrite = "none"
  /\ faulted = FALSE
  /\ serial = Len(db)
  /\ header = HeaderOk
  /\ other = NoOther
  /\ addCtx = NoAdd

\* ------------------------------------- the 2-field CSV and its JSON cache

\* Most documents in the 2-field library.
MaxDocs == 6
\* docs.slice(0, 5): the documents the cache check compares.
SampleSize == 5

\* The model id the AI Core variant writes and expects; the in-process variant
\* writes none.
AiCoreModel == "text-embedding-3-small"
NoModel == "undefined"

\* The vector the in-process model (Xenova/all-MiniLM-L6-v2) computes.
EmbedLocal(t) == [src |-> t, dim |-> 384]

\* embeddings[0]?.length: undefined when there is no first vector.
NoDims == [defined |-> FALSE, n |-> 0]
Dims(embs) ==
  IF embs = <<>> \/ embs[1] = NoVector THEN NoDims
  ELSE [defined |-> TRUE, n |-> embs[1].dim]

\* No cache file: the state of the file, and its text (the members of the
\* object it holds, in the order they are written).
NoCache == [state |-> "absent", text |-> <<>>]
NoCacheIndex == [ready |-> FALSE, reused |-> FALSE, docs |-> <<>>,
                 embeddings |-> <<>>, model |-> NoModel, dimensions |-> NoDims]
NoCacheData == [docs |-> <<>>, embeddings |-> <<>>, model |-> NoModel,
                dimensions |-> NoDims]
\* No cache file was read: there was none, or JSON.parse threw.
NoCacheRead == [parsed |-> FALSE, cached |-> NoCacheData]

\* cacheData, the object the load writes: the AI Core variant adds model and
\* dimensions, the in-process variant has neither key.
CacheData(variant, ds, embs) ==
  [docs |-> ds, embeddings |-> embs,
   model |-> IF variant = "aicore" THEN AiCoreModel ELSE NoModel,
   dimensions |-> IF variant = "aicore" THEN Dims(embs) ELSE NoDims]

\* JSON.stringify of an entry of embeddings: an array of numbers is written as
\* such, a missing entry as null.
JsonArray(v) ==
  IF v = NoVector THEN [kind |-> "null", val |-> NoVector]
  ELSE [kind |-> "json", val |-> v]
\* JSON.parse of it
JsonArrayParsed(f) == IF f.kind = "json" THEN f.val ELSE NoVector

\* The characters of a string as JSON.stringify writes them between the
\* quotes: a quote and a backslash get a backslash in front.
Backslash == "\\"
RECURSIVE JsonEscape(_)
JsonEscape(str) ==
  IF str = <<>> THEN <<>>
  ELSE (IF Head(str) \in {Quote, Backslash}
        THEN <<Backslash, Head(str)>> ELSE <<Head(str)>>)
       \o JsonEscape(Tail(str))

\* JSON.parse reads a string up to the first quote without a backslash in
\* front: the characters between the quotes are a string literal when every
\* quote and every backslash among them follows a backslash.
RECURSIVE JsonLiteral(_)
JsonLiteral(lit) ==
  IF lit = <<>> THEN TRUE
  ELSE IF Head(lit) = Backslash
  THEN Len(lit) >= 2 /\ lit[2] \in {Quote, Backslash}
       /\ JsonLiteral(Tail(Tail(lit)))
  ELSE Head(lit) # Quote /\ JsonLiteral(Tail(lit))

\* The string JSON.parse makes of a string literal.
RECURSIVE JsonUnescape(_)
JsonUnescape(lit) ==
  IF lit = <<>> THEN <<>>
  ELSE IF Head(lit) = Backslash /\ Len(lit) >= 2
  THEN <<lit[2]>> \o JsonUnescape(Tail(Tail(lit)))
  ELSE <<Head(lit)>> \o JsonUnescape(Tail(lit))

\* JSON.stringify of a document, {"id":"...","text":"..."}: the id (digits,
\* written as they are) and the string literal of the text.
JsonDoc(doc) == [id |-> doc.id, text |-> JsonEscape(doc.text)]

\* JSON.stringify(cacheData), the text of the cache file: the members of the
\* object in the order of its keys. A key whose value is undefined is left
\* out (model and dimensions of the in-process variant, dimensions when there
\* is no first vector); timestamp is written last.
JsonStringify(data) ==
  [state |-> "ok",
   text  |->
     <<[key |-> "docs",
        value |-> [k \in 1..Len(data.docs) |-> JsonDoc(data.docs[k])]],
       [key |-> "embeddings",
        value |-> [k \in 1..Len(data.embeddings) |->
                     JsonArray(data.embeddings[k])]]>>
     \o (IF data.model # NoModel
         THEN <<[key |-> "model", value |-> data.model]>> ELSE <<>>)
     \o (IF data.dimensions.defined
         THEN <<[key |-> "dimensions", value |-> data.dimensions.n]>>
         ELSE <<>>)
     \o <<[key |-> "timestamp", value |-> "toISOString"]>>]

\* cached[key] of the parsed object: the value of the member with that key,
\* or undefined.
HasMember(text, key) == \E k \in DOMAIN text : text[k].key = key
Member(text, key) == text[CHOOSE k \in DOMAIN text : text[k].key = key].value

\* JSON.parse does not throw on the file: it is there, it was written to its
\* end, and its strings are string literals.
JsonParses(file) ==
  /\ file.state = "ok"
  /\ HasMember(file.text, "docs")
  /\ \A k \in DOMAIN Member(file.text, "docs") :
       JsonLiteral(Member(file.text, "docs")[k].text)

\* Mutant: the array of embeddings is read back in reverse order.
JsonParseReversed(file) ==
  LET ds == Member(file.text, "docs")
      es == Member(file.text, "embeddings")
  IN [docs |-> [k \in 1..Len(ds) |->
                  [id |-> ds[k].id, text |-> JsonUnescape(ds[k].text)]],
      embeddings |-> [k \in 1..Len(es) |-> JsonArrayParsed(es[Len(es) + 1 - k])],
      model |-> IF HasMember(file.text, "model")
                THEN Member(file.text, "model") ELSE NoModel,
      dimensions |-> IF HasMember(file.text, "dimensions")
                     THEN [defined |-> TRUE, n |-> Member(file.text, "dimensions")]
                     ELSE NoDims]

\* JSON.parse(fs.readFileSync(embedCachePath, 'utf8')) of a file that parses:
\* cached.docs, cached.embeddings, cached.model, cached.dimensions.
JsonParse(file) ==
  LET ds == Member(file.text, "docs")
      es == Member(file.text, "embeddings")
  IN [docs |-> [k \in 1..Len(ds) |->
                  [id |-> ds[k].id, text |-> JsonUnescape(ds[k].text)]],
      embeddings |-> [k \in 1..Len(es) |-> JsonArrayParsed(es[k])],
      model |-> IF HasMember(file.text, "model")
                THEN Member(file.text, "model") ELSE NoModel,
      dimensions |-> IF HasMember(file.text, "dimensions")
                     THEN [defined |-> TRUE, n |-> Member(file.text, "dimensions")]
                     ELSE NoDims]

\* The object loadLibraryEmbeddings returns, with the arrays of its closure:
\* model and dimensions are returned by the AI Core variant only.
ReturnedIndex(variant, reused, ds, embs) ==
  [ready |-> TRUE, reused |-> reused, docs |-> ds, embeddings |-> embs,
   model |-> IF variant = "aicore" THEN AiCoreModel ELSE NoModel,
   dimensions |-> IF variant = "aicore" THEN Dims(embs) ELSE NoDims]

\* What a load has returned, to compare with what a later load reads.
Returned(ix) ==
  [docs |-> ix.docs, embeddings |-> ix.embeddings, model |-> ix.model,
   dimensions |-> ix.dimensions]

\* The parse loop over the 2-field rows: rows without text are skipped.
RECURSIVE ParseRows2(_, _)
ParseRows2(rows, acc) ==
  IF rows = <<>> THEN acc
  ELSE LET row == Head(rows) IN
       IF row.text = <<>>
       THEN ParseRows2(Tail(rows), acc)
       ELSE ParseRows2(Tail(rows),
              Append(acc, [id   |-> IF row.id = EmptyId
                                    THEN StringOf(Len(acc) + 1) ELSE row.id,
                           text |-> Trim(row.text)]))
Docs2 == ParseRows2(store2, <<>>)

\* Mutant of the comparison: nothing but the counts is compared.
SameDataNone(cachedDocs, ds) == TRUE

\* docs.slice(0, 5).every((doc, i) => cached.docs[i] && cached.docs[i].id ===
\* doc.id && cached.docs[i].text === doc.text)
SameData(cachedDocs, ds) ==
  \A k \in 1..Min(SampleSize, Len(ds)) :
    /\ k <= Len(cachedDocs)
    /\ cachedDocs[k].id = ds[k].id
    /\ cachedDocs[k].text = ds[k].text

\* cached.model === 'text-embedding-3-small' (the in-process variant has no
\* such check)
CorrectModel(variant, cached) ==
  variant = "local" \/ cached.model = AiCoreModel

\* The cache is read and parsed, has docs and embeddings, the counts match and
\* the comparison and the model check pass.
CacheAccepted(variant, file, ds) ==
  /\ JsonParses(file)
  /\ LET cached == JsonParse(file) IN
     /\ Len(cached.docs) = Len(ds)
     /\ SameData(cached.docs, ds)
     /\ CorrectModel(variant, cached)

\* A cache file that was cut while it was written: JSON.parse throws on it.
CutCache == [NoCache EXCEPT !.state = "corrupt"]

\* fs.writeFileSync(embedCachePath, JSON.stringify(cacheData)) in its own try:
\* a failure is logged. The file is then as it was (it could not be opened),
\* or it was truncated when it was opened and holds the beginning of the new
\* text.
WrittenCache(writeOk, variant, ds, embs) ==
  IF writeOk THEN {JsonStringify(CacheData(variant, ds, embs))}
  ELSE {cacheFile, CutCache}

\* Mutant: a rejected cache is still used for the documents it agrees on; only
\* the texts of the other positions are sent.
TextsToEmbedChanged(ds) ==
  LET cached  == IF JsonParses(cacheFile) THEN JsonParse(cacheFile).docs
                 ELSE <<>>
      changed == SelectSeq(ds, LAMBDA doc :
                   ~\E k \in DOMAIN cached : cached[k] = doc)
  IN [k \in 1..Len(changed) |-> changed[k].text]

\* const texts = docs.map(doc => doc.text): with needsRecompute the texts of
\* all documents are sent, whatever the cache holds.
TextsToEmbed(ds) == [k \in 1..Len(ds) |-> ds[k].text]

\* The variables of the 3-field store and of the database that the loads of
\* the JSON-cache variants leave alone.
storeRest == <<backend, csv, header, db, serial, lpc, indicesNeedingEmbeddings, index, dpc,
               idsToProcess, pending, lastWrite, other, addCtx>>

\* loadLibraryEmbeddings(csvPath) of the JSON-cache variants, with the cache
\* file it finds, up to its first await: on generateBatchEmbeddings (AI Core
\* variant) or on initEmbedder() (in-process variant). The documents read
\* from library.csv stay in docs while the load is under way; snapshot
\* records the cache file the load found.
CacheLoadBegin(file) ==
  LET ds == Docs2 IN
  /\ cacheFile' = file
  /\ snapshot' = file
  /\ cread' = IF JsonParses(file)
              THEN [parsed |-> TRUE, cached |-> JsonParse(file)]
              ELSE NoCacheRead
  /\ IF CacheAccepted(cvariant, file, ds)
     THEN /\ cindex' = ReturnedIndex(cvariant, TRUE, ds,
                                     JsonParse(file).embeddings)
          /\ cpc' = "returned"
          /\ UNCHANGED <<docs, lemb, written, coordVars>>
     ELSE IF cvariant = "aicore"
     THEN /\ Enter(TextsToEmbed(ds), DefaultBatchSize,
                   DefaultDelayMs, DefaultMaxRetries, DefaultInitialWaitMs)
          /\ cpc' = "computing"
          /\ cindex' = NoCacheIndex
          /\ docs' = ds
          /\ UNCHANGED <<lemb, written>>
     ELSE /\ cpc' = "initializing"
          /\ cindex' = NoCacheIndex
          /\ docs' = ds
          /\ lemb' = <<>>
          /\ UNCHANGED <<written, coordVars>>

\* The server (or a script) loads the library.
CacheLoadStart ==
  /\ backend = "cache"
  /\ Resting
  /\ gpc = "idle"
  /\ CacheLoadBegin(cacheFile)
  /\ UNCHANGED <<faulted, cvariant, store2, storeRest, tokVars, searchVars, pureVars>>

\* regenerateAllEmbeddings(csvPath) of the AI Core variant: the cache file is
\* removed when there is one, and the library is loaded; when the file cannot
\* be removed the call is rejected.
RegenerateAll ==
  /\ backend = "cache"
  /\ cvariant = "aicore"
  /\ Resting
  /\ gpc = "idle"
  /\ \E unlinkOk \in BOOLEAN :
       IF unlinkOk \/ cacheFile.state = "absent"
       THEN CacheLoadBegin(NoCache)
       ELSE /\ cpc' = "failed"
            /\ cindex' = NoCacheIndex
            /\ snapshot' = cacheFile
            /\ UNCHANGED <<cacheFile, docs, lemb, written, cread, coordVars>>
  /\ UNCHANGED <<faulted, cvariant, store2, storeRest, tokVars, searchVars, pureVars>>

\* The end of the in-process load: the cache is written in its own try, the
\* index is returned.
LocalFinish(ds, embs) ==
  \E writeOk \in BOOLEAN :
    /\ ~writeOk => ~faulted
    /\ faulted' = (faulted \/ ~writeOk)
    /\ cacheFile' \in WrittenCache(writeOk, "local", ds, embs)
    /\ written' = IF writeOk
                  THEN Returned(ReturnedIndex("local", FALSE, ds, embs))
                  ELSE written
    /\ cread' = IF writeOk THEN NoCacheRead ELSE cread
    /\ snapshot' = IF writeOk THEN cacheFile' ELSE snapshot
    /\ cindex' = ReturnedIndex("local", FALSE, ds, embs)
    /\ cpc' = "returned"
    /\ docs' = <<>>
    /\ lemb' = <<>>

\* The in-process load failed: the model did not load, or did not answer.
LocalFailed ==
  /\ cpc' = "failed"
  /\ cindex' = NoCacheIndex
  /\ docs' = <<>>
  /\ lemb' = <<>>
  /\ UNCHANGED <<cacheFile, written, cread, faulted, serial, snapshot>>

\* The awaited initEmbedder() settles (in-process variant): the loop over the
\* documents starts with its first await on model(doc.text); with no
\* document the load goes on to its end.
LocalModelLoaded ==
  /\ cpc = "initializing"
  /\ \E modelOk \in BOOLEAN :
       IF ~modelOk THEN LocalFailed
       ELSE IF docs = <<>> THEN LocalFinish(docs, <<>>)
       ELSE /\ cpc' = "embedding"
            /\ UNCHANGED <<docs, lemb, cindex, cacheFile, written, cread, faulted,
                           serial, snapshot>>
  /\ UNCHANGED <<cvariant, store2, storeRest, coordVars, tokVars, searchVars,
                 pureVars>>

\* The awaited model(doc.text) settles: the vector is pushed, and the next
\* document is embedded, or after the last one the load goes on to its end.
LocalEmbedded ==
  /\ cpc = "embedding"
  /\ \E embedOk \in BOOLEAN :
       IF ~embedOk THEN LocalFailed
       ELSE LET embs == Append(lemb, EmbedLocal(docs[Len(lemb) + 1].text)) IN
            IF Len(embs) = Len(docs) THEN LocalFinish(docs, embs)
            ELSE /\ lemb' = embs
                 /\ UNCHANGED <<docs, cpc, cindex, cacheFile, written, cread,
                                faulted, serial, snapshot>>
  /\ UNCHANGED <<cvariant, store2, storeRest, coordVars, tokVars, searchVars,
                 pureVars>>

\* Mutant: the count is not verified.
CountMatchesAlways(embs, ds) == TRUE

\* The negation of embeddings.length !== docs.length, the check after the
\* awaited generateBatchEmbeddings.
CountMatches(embs, ds) == Len(embs) = Len(ds)

\* The awaited generateBatchEmbeddings settles (AI Core variant): the count is
\* verified, the cache is written, the index is returned.
CacheLoadFinish ==
  /\ cpc = "computing"
  /\ gpc \in {"returned", "threw"}
  /\ \E writeOk \in BOOLEAN :
       LET ds == docs IN
       IF gpc = "returned" /\ CountMatches(embeddings, ds)
       THEN /\ ~writeOk => ~faulted
            /\ faulted' = (faulted \/ ~writeOk)
            /\ cacheFile' \in WrittenCache(writeOk, "aicore", ds, embeddings)
            /\ written' = IF writeOk
                          THEN Returned(ReturnedIndex("aicore", FALSE, ds,
                                                      embeddings))
                          ELSE written
            /\ cread' = IF writeOk THEN NoCacheRead ELSE cread
            /\ snapshot' = IF writeOk THEN cacheFile' ELSE snapshot
            /\ cindex' = ReturnedIndex("aicore", FALSE, ds, embeddings)
            /\ cpc' = "returned"
       ELSE /\ writeOk
            /\ cpc' = "failed"
            /\ cindex' = NoCacheIndex
            /\ UNCHANGED <<cacheFile, written, cread, faulted, serial, snapshot>>
  /\ CoordReset
  /\ docs' = <<>>
  /\ UNCHANGED <<cvariant, store2, lemb, storeRest, tokVars, searchVars,
                 pureVars>>

\* library.csv is maintained by its users: a row is added at the end, up to
\* most rows.
AppendRow2(most) ==
  /\ backend = "cache"
  /\ Resting
  /\ Len(store2) < most
  /\ store2' = Append(store2, [id |-> StringOf(Len(store2) + 1), text |-> <<"a">>])
  /\ cpc' = "idle"
  /\ cindex' = NoCacheIndex
  /\ cread' = NoCacheRead
  /\ UNCHANGED <<cvariant, cacheFile, written, storeVars, tokVars, coordVars,
                 searchVars, pureVars>>

ExternalAppend2 == AppendRow2(MaxDocs)

\* The same for the libraries that are migrated, which are short.
ExternalAppendShort == AppendRow2(MaxRows)

\* ... or the text of a row is rewritten (the new text ends with a quote,
\* which the 2-field parse keeps as it is).
EditedText == <<"b", Quote>>
ExternalEdit2 ==
  /\ backend = "cache"
  /\ Resting
  /\ \E p \in DOMAIN store2 :
       /\ store2[p].text = <<"a">>
       /\ store2' = [store2 EXCEPT ![p].text = EditedText]
  /\ cpc' = "idle"
  /\ cindex' = NoCacheIndex
  /\ cread' = NoCacheRead
  /\ UNCHANGED <<cvariant, cacheFile, written, storeVars, tokVars, coordVars,
                 searchVars, pureVars>>

\* ... also while a load awaits the provider or the model (here the text of
\* the first row): the load goes on with the documents it has read.
ExternalEditDuringLoad ==
  /\ backend = "cache"
  /\ cpc \in {"initializing", "embedding", "computing"}
  /\ store2 # <<>>
  /\ store2[1].text = <<"a">>
  /\ store2' = [store2 EXCEPT ![1].text = EditedText]
  /\ UNCHANGED <<cvariant, cacheFile, cpc, cindex, written, cread, storeVars, tokVars,
                 coordVars, searchVars, pureVars>>

\* The cache file is damaged (a write cut short): JSON.parse will throw.
CacheCorrupted ==
  /\ backend = "cache"
  /\ Resting
  /\ cacheFile.state = "ok"
  /\ cacheFile' = [cacheFile EXCEPT !.state = "corrupt"]
  /\ cpc' = "idle"
  /\ cindex' = NoCacheIndex
  /\ cread' = NoCacheRead
  /\ UNCHANGED <<cvariant, store2, written, storeVars, tokVars, coordVars,
                 searchVars, pureVars>>

\* embeddingIndex.js is replaced: the in-process variant by the AI Core one.
Upgrade ==
  /\ backend = "cache"
  /\ Resting
  /\ cvariant = "local"
  /\ cvariant' = "aicore"
  /\ cpc' = "idle"
  /\ cindex' = NoCacheIndex
  /\ cread' = NoCacheRead
  /\ UNCHANGED <<store2, cacheFile, written, storeVars, tokVars, coordVars,
                 searchVars, pureVars>>

\* The rows migrateToNewFormat writes: each document of the 2-field file with
\* the vector the cache file holds at its position, or with none (no file, a
\* file that does not parse, no entry at that position).
MigratedRows(ds, file) ==
  LET es == IF JsonParses(file) THEN JsonParse(file).embeddings ELSE <<>>
  IN [k \in 1..Len(ds) |->
        formatCSVRow(ds[k].id, ds[k].text,
                     IF k <= Len(es) THEN es[k] ELSE NoVector)]

\* migrateToNewFormat(oldCsvPath, embeddingsJsonPath, newCsvPath); from then
\* on the 3-field variant of loadLibraryEmbeddings serves the new file. When
\* the write of the new file throws, the file holds what the write left (a
\* file that was not created is a file without a line: the load rejects both).
Migrate ==
  /\ backend = "cache"
  /\ Resting
  /\ backend' = "csv"
  /\ \E writeOk \in BOOLEAN :
       LET newFile == MigratedRows(Docs2, cacheFile) IN
       /\ ~writeOk => ~faulted
       /\ faulted' = (faulted \/ ~writeOk)
       /\ \E w \in (IF writeOk THEN {[header |-> HeaderOk, rows |-> newFile]}
                   ELSE FailedWrite(NoHeader, <<>>, HeaderOk, newFile)) :
            /\ csv' = w.rows
            /\ header' = w.header
  /\ snapshot' = csv'
  /\ cpc' = "idle"
  /\ cindex' = NoCacheIndex
  /\ cread' = NoCacheRead
  /\ UNCHANGED <<serial, db, lpc, docs, lemb, indicesNeedingEmbeddings, index, dpc,
                 idsToProcess, pending, lastWrite, other, addCtx, cvariant,
                 store2, cacheFile, written, coordVars, tokVars, searchVars,
                 pureVars>>

CacheIdle ==
  /\ cvariant = "aicore"
  /\ store2 = <<>>
  /\ cacheFile = NoCache
  /\ cpc = "idle"
  /\ cindex = NoCacheIndex
  /\ written = NoCacheData
  /\ cread = NoCacheRead

\* ------------------------------------------------------ the access token

\* Concurrent callers of generateEmbedding, and the token requests answered.
NumCallers == 2
MaxIssued == 2
\* The clock is advanced this many times, by the safety margin each time.
MaxTicks == 3
\* Date.now() < tokenCache.expiresAt - 300000
Margin == 300000

Callers == 1..NumCallers
NoToken == 0

\* Mutant: the cached token is used up to its expiry, without the margin.
TokenValidNoMargin(cache, t) == cache.token # NoToken /\ t < cache.expiresAt

\* tokenCache.token && Date.now() < tokenCache.expiresAt - 300000
TokenValid(cache, t) == cache.token # NoToken /\ t < cache.expiresAt - Margin

\* getAccessToken() up to its await: the cached token is returned, or the
\* token request is posted.
GetAccessToken(c) ==
  /\ tpc[c] = "idle"
  /\ IF TokenValid(tokenCache, now)
     THEN /\ tpc' = [tpc EXCEPT ![c] = "done"]
          /\ held' = [held EXCEPT ![c] = tokenCache.token]
     ELSE /\ issued < MaxIssued
          /\ tpc' = [tpc EXCEPT ![c] = "requesting"]
          /\ UNCHANGED held
  /\ UNCHANGED <<tokenCache, now, issued, grant, coordVars, storeVars, cacheVars,
                 searchVars, pureVars>>

\* The token endpoint answers the request of caller c: the token and its
\* lifetime are cached and the token is returned; or the request fails and
\* getAccessToken throws.
TokenResponse(c) ==
  /\ tpc[c] = "requesting"
  /\ \/ \E expires_in \in {300, 900} :
          /\ tokenCache' = [token |-> issued + 1,
                            expiresAt |-> now + expires_in * 1000]
          /\ held' = [held EXCEPT ![c] = issued + 1]
          /\ tpc' = [tpc EXCEPT ![c] = "done"]
          /\ grant' = [token |-> issued + 1, at |-> now,
                       expires_in |-> expires_in]
     \/ /\ tpc' = [tpc EXCEPT ![c] = "failed"]
        /\ UNCHANGED <<tokenCache, held, grant>>
  /\ issued' = issued + 1
  /\ UNCHANGED <<now, coordVars, storeVars, cacheVars,
                 searchVars, pureVars>>

\* The caller's generateEmbedding is over; it may call again.
CallerDone(c) ==
  /\ tpc[c] \in {"done", "failed"}
  /\ tpc' = [tpc EXCEPT ![c] = "idle"]
  /\ held' = [held EXCEPT ![c] = NoToken]
  /\ UNCHANGED <<tokenCache, now, issued, grant, coordVars, storeVars, cacheVars,
                 searchVars, pureVars>>

\* Time passes.
Tick ==
  /\ now < MaxTicks * Margin
  /\ now' = now + Margin
  /\ UNCHANGED <<tokenCache, tpc, held, issued, grant, coordVars, storeVars,
                 cacheVars, searchVars, pureVars>>

TokenIdle ==
  /\ tokenCache = [token |-> NoToken, expiresAt |-> 0]
  /\ now = 0
  /\ tpc = [c \in Callers |-> "idle"]
  /\ held = [c \in Callers |-> NoToken]
  /\ issued = 0
  /\ grant = [token |-> NoToken, at |-> 0, expires_in |-> 0]

\* ------------------------------------------------ similarity search

\* The requests of POST /api/similar that can be under way at a time.
Searchers == {1, 2}
\* The queries asked, and the largest limit passed (the smallest is -1).
Queries == {<<"a">>, <<"b">>}
MaxLimit == 2
\* Most data rows of the library file the server starts with.
MaxCorpus == 2

\* The leading components of the vector a model computes for a text (all
\* other components are 0): three directions, told apart by the text's first
\* letter.
Direction(src) ==
  LET t == TrimLeft(src) IN
  IF t # <<>> /\ Head(t) = "a" THEN <<1, 0>>
  ELSE IF t # <<>> /\ Head(t) = "b" THEN <<3, 4>>
  ELSE <<5, 12>>

\* dotProduct, and Math.sqrt(normA) for the directions above.
Dot(x, y) == x[1] * y[1] + x[2] * y[2]
Norm(x) == CHOOSE n \in 0..13 : n * n = Dot(x, x)

\* Mutant: the lengths are not compared.
cosineSimilarityUnchecked(vecA, vecB) ==
  [ok  |-> TRUE,
   num |-> Dot(Direction(vecA.src), Direction(vecB.src)),
   den |-> Norm(Direction(vecA.src)) * Norm(Direction(vecB.src))]

\* cosineSimilarity(vecA, vecB): throws when the lengths differ, else
\* dotProduct / (sqrt(normA) * sqrt(normB)), kept as the fraction num / den.
cosineSimilarity(vecA, vecB) ==
  IF vecA.dim # vecB.dim
  THEN [ok |-> FALSE, num |-> 0, den |-> 1]
  ELSE [ok  |-> TRUE,
        num |-> Dot(Direction(vecA.src), Direction(vecB.src)),
        den |-> Norm(Direction(vecA.src)) * Norm(Direction(vecB.src))]

\* b.similarity - a.similarity > 0: a sorts after b.
Less(a, b) == a.num * b.den < b.num * a.den
SameSimilarity(a, b) == a.num * b.den = b.num * a.den

\* Number(similarity.toFixed(4)), in units of 0.0001: the nearest multiple,
\* the larger magnitude when two are equally near.
ToFixed4(x) ==
  IF x.num >= 0
  THEN (20000 * x.num + x.den) \div (2 * x.den)
  ELSE 0 - ((20000 * (0 - x.num) + x.den) \div (2 * x.den))

\* Mutant: ascending order.
InsertSortedAscending(e, acc) ==
  LET before == {j \in 1..Len(acc) : Less(acc[j].similarity, e.similarity)}
      n == Cardinality(before)
  IN SubSeq(acc, 1, n) \o <<e>> \o SubSeq(acc, n + 1, Len(acc))

\* Mutant: an element is placed before the elements of equal similarity.
InsertSortedBeforeEqual(e, acc) ==
  LET before == {j \in 1..Len(acc) : Less(e.similarity, acc[j].similarity)}
      n == Cardinality(before)
  IN SubSeq(acc, 1, n) \o <<e>> \o SubSeq(acc, n + 1, Len(acc))

\* similarities.sort((a, b) => b.similarity - a.similarity), a stable sort:
\* e, which comes after the elements of acc in the array, is placed behind
\* every element that is not smaller.
InsertSorted(e, acc) ==
  LET before == {j \in 1..Len(acc) : ~Less(acc[j].similarity, e.similarity)}
      n == Cardinality(before)
  IN SubSeq(acc, 1, n) \o <<e>> \o SubSeq(acc, n + 1, Len(acc))

RECURSIVE SortDesc(_, _)
SortDesc(rest, acc) ==
  IF rest = <<>> THEN acc
  ELSE SortDesc(Tail(rest), InsertSorted(Head(rest), acc))

\* similarities.slice(0, limit): a negative limit counts from the end.
SliceTop(seq, limit) ==
  IF limit >= 0
  THEN SubSeq(seq, 1, Min(limit, Len(seq)))
  ELSE SubSeq(seq, 1, Len(seq) + limit)

\* History kept with an outcome: the vectors the search compared the query
\* with, whether a recompute was under way then ("run") and how many of its
\* UPDATEs had been done, and the vectors stored when that recompute began.
NotSeen == [vectors |-> <<>>, before |-> <<>>, phase |-> "none", k |-> 0]

\* The body of search once the query vector is there: the similarities of all
\* documents (a length mismatch rejects the search), sorted, cut, formatted.
SearchResults(ix, qv, limit) ==
  LET sims == [k \in 1..Len(ix.embeddings) |->
                 [index |-> k,
                  similarity |-> cosineSimilarity(qv, ix.embeddings[k])]]
  IN IF \E k \in DOMAIN sims : ~sims[k].similarity.ok
     THEN [kind |-> "error", error |-> "length", results |-> <<>>,
           seen |-> NotSeen]
     ELSE LET top == SliceTop(SortDesc(sims, <<>>), limit) IN
          [kind |-> "ok", error |-> "none",
           seen |-> [vectors |-> ix.embeddings, before |-> <<>>,
                     phase |-> "rest", k |-> 0],
           results |-> [j \in 1..Len(top) |->
                          [id    |-> ix.docs[top[j].index].id,
                           text  |-> ix.docs[top[j].index].text,
                           score |-> ToFixed4(top[j].similarity),
                           index |-> top[j].index]]]

NoRequest == [query |-> <<>>, limit |-> 0, qv |-> NoVector]
NoResult == [kind |-> "none", error |-> "none", results |-> <<>>,
             seen |-> NotSeen]
Rejected(why) == [kind |-> "error", error |-> why, results |-> <<>>,
                  seen |-> NotSeen]

\* POST /api/similar with an index that is ready: search(query, limit) runs
\* up to its await on generateEmbedding(query).
SearchCall(s) ==
  /\ spc[s] = "idle"
  /\ backend = "csv"
  /\ index.ready
  /\ \E q \in Queries, limit \in (0 - 1)..MaxLimit :
       sreq' = [sreq EXCEPT ![s] = [query |-> q, limit |-> limit, qv |-> NoVector]]
  /\ spc' = [spc EXCEPT ![s] = "embedding"]
  /\ sres' = [sres EXCEPT ![s] = NoResult]
  /\ UNCHANGED <<dbClient, coordVars, storeVars, cacheVars, tokVars, pureVars>>

\* The query vector: embeddings[0] of the provider's list for [query], which
\* is undefined when the list is empty.
QueryVector(res) == IF Len(res.vectors) > 0 THEN res.vectors[1] ELSE NoVector

\* generateEmbedding(query) settles: the search resolves with its results or
\* rejects.
SearchReply(s, reply) ==
  /\ spc[s] = "embedding"
  /\ LET res == generateEmbedding(reply, <<sreq[s].query>>)
         qv  == IF res.ok THEN QueryVector(res) ELSE NoVector
     IN /\ sreq' = [sreq EXCEPT ![s].qv = qv]
        /\ IF ~res.ok
           THEN /\ sres' = [sres EXCEPT ![s] = Rejected("provider")]
                /\ spc' = [spc EXCEPT ![s] = "rejected"]
           ELSE IF qv = NoVector
           THEN /\ sres' = [sres EXCEPT ![s] = Rejected("noVector")]
                /\ spc' = [spc EXCEPT ![s] = "rejected"]
           ELSE LET out == SearchResults(index, qv, sreq[s].limit)
                IN
                /\ sres' = [sres EXCEPT ![s] = out]
                /\ spc' = [spc EXCEPT ![s] =
                             IF out.kind = "ok" THEN "resolved" ELSE "rejected"]
  /\ UNCHANGED <<dbClient, coordVars, storeVars, cacheVars, tokVars, pureVars>>

\* POST /api/similar before the index is assigned: 503, no search. Once the
\* load has failed the process has exited and answers nothing.
SearchRefused(s) ==
  /\ spc[s] = "idle"
  /\ backend = "csv"
  /\ ~index.ready
  /\ lpc # "failed"
  /\ spc' = [spc EXCEPT ![s] = "rejected"]
  /\ sres' = [sres EXCEPT ![s] = Rejected("notReady")]
  /\ UNCHANGED <<sreq, dbClient, coordVars, storeVars, cacheVars, tokVars, pureVars>>

\* --------------------------------------------- search on the database

\* limit = 25, the default of DatabaseClient.search and of the route.
DefaultLimit == 25

\* The rows a SELECT ... WHERE embedding IS NOT NULL reads: id and vector.
VisibleVectors(rows) ==
  LET vis == SelectSeq(rows, LAMBDA r : r.embedding # NoVector)
  IN [k \in 1..Len(vis) |-> [id |-> vis[k].id, embedding |-> vis[k].embedding]]

\* ORDER BY embedding <=> q: the orders of the rows by ascending distance;
\* rows at equal distance come in any order.
Orderings(vis, qv) ==
  {f \in [1..Len(vis) -> 1..Len(vis)] :
     /\ \A j \in DOMAIN f : \A k \in DOMAIN f : j # k => f[j] # f[k]
     /\ \A j \in DOMAIN f : \A k \in DOMAIN f :
          j < k => ~Less(cosineSimilarity(qv, vis[f[j]].embedding),
                         cosineSimilarity(qv, vis[f[k]].embedding))}

\* The server starts: dbClient.initialize() settles. When it rejects, the
\* client is set to null.
DbInitialized ==
  /\ backend = "db"
  /\ dbClient = "initializing"
  /\ \E ok \in BOOLEAN : dbClient' = IF ok THEN "counting" ELSE "null"
  /\ UNCHANGED <<spc, sreq, sres, coordVars, storeVars, cacheVars, tokVars,
                 pureVars>>

\* getStats() settles: the server is ready (the missing vectors are computed
\* by generateMissingEmbeddings, on its own), or the client is set to null.
DbCounted ==
  /\ backend = "db"
  /\ dbClient = "counting"
  /\ \E ok \in BOOLEAN : dbClient' = IF ok THEN "ready" ELSE "null"
  /\ UNCHANGED <<spc, sreq, sres, coordVars, storeVars, cacheVars, tokVars,
                 pureVars>>

\* POST /api/similar of the database server without a client: 503, no search.
DbSearchRefused(s) ==
  /\ spc[s] = "idle"
  /\ backend = "db"
  /\ dbClient = "null"
  /\ spc' = [spc EXCEPT ![s] = "rejected"]
  /\ sres' = [sres EXCEPT ![s] = Rejected("notReady")]
  /\ UNCHANGED <<sreq, dbClient, coordVars, storeVars, cacheVars, tokVars, pureVars>>

\* DatabaseClient.search(query, limit) up to its await on generateEmbedding:
\* pool.connect() gives a connection, or rejects and so does the search,
\* before any request for the query's vector.
DbSearchCall(s) ==
  /\ spc[s] = "idle"
  /\ backend = "db"
  /\ dbClient # "null"
  /\ \E q \in Queries, connectOk \in BOOLEAN :
       /\ sreq' = [sreq EXCEPT ![s] = [query |-> q, limit |-> DefaultLimit,
                                       qv |-> NoVector]]
       /\ IF connectOk
          THEN /\ spc' = [spc EXCEPT ![s] = "dbEmbedding"]
               /\ sres' = [sres EXCEPT ![s] = NoResult]
          ELSE /\ spc' = [spc EXCEPT ![s] = "rejected"]
               /\ sres' = [sres EXCEPT ![s] = Rejected("connect")]
  /\ UNCHANGED <<dbClient, coordVars, storeVars, cacheVars, tokVars, pureVars>>

\* generateEmbedding(query) settles: the SELECT is sent, or the search throws.
DbSearchEmbedded(s, reply) ==
  /\ spc[s] = "dbEmbedding"
  /\ LET res == generateEmbedding(reply, <<sreq[s].query>>)
         qv  == IF res.ok THEN QueryVector(res) ELSE NoVector
     IN /\ sreq' = [sreq EXCEPT ![s].qv = qv]
        /\ IF ~res.ok
           THEN /\ sres' = [sres EXCEPT ![s] = Rejected("provider")]
                /\ spc' = [spc EXCEPT ![s] = "rejected"]
           ELSE IF qv = NoVector
           THEN /\ sres' = [sres EXCEPT ![s] = Rejected("noVector")]
                /\ spc' = [spc EXCEPT ![s] = "rejected"]
           ELSE /\ spc' = [spc EXCEPT ![s] = "dbQuerying"]
                /\ UNCHANGED sres
  /\ UNCHANGED <<dbClient, coordVars, storeVars, cacheVars, tokVars, pureVars>>

\* The rows of a scan in the order f, without those the scan did not visit.
Scanned(f, visited) == SelectSeq(f, LAMBDA k : k \in visited)

\* The SELECT runs on the committed rows: the rows with a vector, by
\* distance, at most limit; a query vector of another length than the
\* column's is an error, and the query can be rejected (no table yet, a lost
\* connection). The ivfflat index on the column makes the scan approximate:
\* it visits the rows of the lists it probes, and all rows when the planner
\* reads the table instead.
DbSearchSelect(s) ==
  /\ spc[s] = "dbQuerying"
  /\ LET rows == SelectSeq(db, LAMBDA r : r.embedding # NoVector)
         qv   == sreq[s].qv
         seen == [vectors |-> VisibleVectors(db),
                  before  |-> VisibleVectors(snapshot),
                  phase   |-> IF dpc \in {"embedding", "writing"}
                              THEN "run" ELSE "rest",
                  k       |-> pending.k]
     IN IF qv.dim # Dimensions
        THEN /\ sres' = [sres EXCEPT ![s] = Rejected("length")]
             /\ spc' = [spc EXCEPT ![s] = "rejected"]
        ELSE
          \/ /\ sres' = [sres EXCEPT ![s] = Rejected("select")]
             /\ spc' = [spc EXCEPT ![s] = "rejected"]
          \/ \E f \in Orderings(rows, qv), visited \in SUBSET DOMAIN rows :
               LET g   == Scanned(f, visited)
                   top == SubSeq(g, 1, Min(sreq[s].limit, Len(g))) IN
               /\ sres' = [sres EXCEPT ![s] =
                    [kind |-> "ok", error |-> "none", seen |-> seen,
                     results |-> [j \in 1..Len(top) |->
                        [id    |-> IF rows[top[j]].original_id # EmptyId
                                   THEN rows[top[j]].original_id
                                   ELSE StringOf(rows[top[j]].id),
                         text  |-> rows[top[j]].text,
                         score |-> ToFixed4(cosineSimilarity(qv,
                                              rows[top[j]].embedding)),
                         index |-> top[j]]]]]
               /\ spc' = [spc EXCEPT ![s] = "resolved"]
  /\ UNCHANGED <<sreq, dbClient, coordVars, storeVars, cacheVars, tokVars, pureVars>>

\* The response is sent; the next request can come.
SearchEnd(s) ==
  /\ spc[s] \in {"resolved", "rejected"}
  /\ spc' = [spc EXCEPT ![s] = "idle"]
  /\ sreq' = [sreq EXCEPT ![s] = NoRequest]
  /\ sres' = [sres EXCEPT ![s] = NoResult]
  /\ UNCHANGED <<dbClient, coordVars, storeVars, cacheVars, tokVars, pureVars>>

SearchIdle ==
  /\ spc = [s \in Searchers |-> "idle"]
  /\ sreq = [s \in Searchers |-> NoRequest]
  /\ sres = [s \in Searchers |-> NoResult]
  /\ dbClient = "null"

\* ------------------------- the query path with its token request

\* search(query, limit) up to the first await inside generateEmbedding(query):
\* getAccessToken returns the cached token and the embeddings request is
\* posted (with timeout: 60000), or the token request is posted (axios.post
\* without a timeout option: axios then waits without limit).
QueryCall(s) ==
  /\ spc[s] = "idle"
  /\ backend = "csv"
  /\ index.ready
  /\ TokenValid(tokenCache, now) \/ issued < MaxIssued
  /\ \E q \in Queries :
       sreq' = [sreq EXCEPT ![s] = [query |-> q, limit |-> DefaultLimit,
                                    qv |-> NoVector]]
  /\ spc' = [spc EXCEPT ![s] = IF TokenValid(tokenCache, now)
                               THEN "embedding" ELSE "token"]
  /\ sres' = [sres EXCEPT ![s] = NoResult]
  /\ UNCHANGED <<dbClient, coordVars, storeVars, cacheVars, tokVars, pureVars>>

\* The token endpoint answers the request made for search s: the token is
\* cached and the embeddings request is posted; or the request fails,
\* getAccessToken throws and the search rejects.
QueryTokenResponse(s) ==
  /\ spc[s] = "token"
  /\ \/ \E expires_in \in {300, 900} :
          /\ tokenCache' = [token |-> issued + 1,
                            expiresAt |-> now + expires_in * 1000]
          /\ grant' = [token |-> issued + 1, at |-> now,
                       expires_in |-> expires_in]
          /\ spc' = [spc EXCEPT ![s] = "embedding"]
          /\ UNCHANGED sres
     \/ /\ spc' = [spc EXCEPT ![s] = "rejected"]
        /\ sres' = [sres EXCEPT ![s] = Rejected("provider")]
        /\ UNCHANGED <<tokenCache, grant>>
  /\ issued' = issued + 1
  /\ UNCHANGED <<sreq, dbClient, now, tpc, held, coordVars, storeVars, cacheVars,
                 pureVars>>

\* The 60 s timeout of the embeddings request of search s fires before an
\* answer: axios rejects with its own error ('timeout of 60000ms exceeded'),
\* generateEmbedding re-throws it and the search rejects.
QueryEmbeddingTimeout(s) ==
  /\ spc[s] = "embedding"
  /\ spc' = [spc EXCEPT ![s] = "rejected"]
  /\ sres' = [sres EXCEPT ![s] = Rejected("timeout")]
  /\ UNCHANGED <<sreq, dbClient, coordVars, storeVars, cacheVars, tokVars, pureVars>>

\* ------------------------------------------------ the row format

\* Longest text written to a row.
MaxTextLen == 3

\* The characters of the texts tried: a letter, a blank, the separator and
\* the quote character.
Chars == {"a", " ", Comma, Quote}
RowTexts == UNION {[1..n -> Chars] : n \in 0..MaxTextLen}
\* The ids tried (no comma, no quote): none, a number, a padded number.
RowIds == {<<>>, <<"7">>, <<"0", "7">>}
\* The embeddings tried, as arrays of one-digit numbers; <<>> is none (null).
RowEmbeddings == {<<>>, <<"1">>, <<"1", "2">>}

\* JSON.stringify(embedding) for an array of numbers: [n1,n2,...]
RECURSIVE JsonItems(_)
JsonItems(arr) ==
  IF arr = <<>> THEN <<>>
  ELSE IF Len(arr) = 1 THEN <<arr[1]>>
  ELSE <<arr[1], Comma>> \o JsonItems(Tail(arr))
JsonText(arr) == <<"[">> \o JsonItems(arr) \o <<"]">>

\* formatCSVRow(id, text, embedding), the line as a sequence of characters.
formatCSVRowLine(id, text, embedding) ==
  LET escapedText == <<Quote>> \o EscapeQuotes(text) \o <<Quote>>
      embeddingStr == IF Len(embedding) > 0
                      THEN <<Quote>> \o EscapeQuotes(JsonText(embedding))
                           \o <<Quote>>
                      ELSE <<Quote, Quote>>
  IN id \o <<Comma>> \o escapedText \o <<Comma>> \o embeddingStr

NoCall == [fn |-> "none"]
NoReturn == [done |-> FALSE]
PureIdle ==
  /\ call = NoCall
  /\ ret = NoReturn

\* A row is written by formatCSVRow and read back by parseCSVRow.
RowRoundTrip ==
  /\ call.fn = "row"
  /\ ~ret.done
  /\ ret' = [done    |-> TRUE,
                line |-> formatCSVRowLine(call.id, call.text, call.embedding),
                fields |-> parseCSVRow(formatCSVRowLine(call.id, call.text,
                                                        call.embedding))]
  /\ UNCHANGED <<call, coordVars, storeVars, cacheVars, tokVars, searchVars>>

\* ------------------------------------------------ the lexical index

\* Most data rows of a library tried.
MaxLexDocs == 2

\* STOP
LexStop == {"the", "a", "an", "and", "or", "of", "to", "for", "with", "on",
            "in", "at", "by", "is", "are", "be", "use", "using"}

\* A text is the sequence of its words, the matches of TOKEN_RE in order.
\* t.toLowerCase() for the words tried.
LexLower(w) == IF w = "Cloth" THEN "cloth" ELSE w

\* Mutant: stopwords are kept.
tokenizeAll(text) == [k \in 1..Len(text) |-> LexLower(text[k])]

\* tokenize(text): the words in lower case, stopwords dropped.
tokenize(text) ==
  SelectSeq([k \in 1..Len(text) |-> LexLower(text[k])],
            LAMBDA t : t \notin LexStop)

\* The docs of loadLibraryCsv: the rows with a text, each with its tokens.
LexDocs(rows) ==
  LET ds == ParseRows2(rows, <<>>)
  IN [k \in 1..Len(ds) |->
        [id |-> ds[k].id, text |-> ds[k].text, tokens |-> tokenize(ds[k].text)]]

\* inverted.get(tok): the documents holding tok, in the order of the file,
\* each with the number of times it holds it.
TermFrequency(tok, d) == Cardinality({k \in DOMAIN d.tokens : d.tokens[k] = tok})
Postings(tok, ds) ==
  SelectSeq([k \in 1..Len(ds) |-> k], LAMBDA d : TermFrequency(tok, ds[d]) > 0)

\* Numbers of the scoring are fixed-point values in units of 0.00000001,
\* four places more than the four the results are printed with.
\* Math.log(n) for n = 1..7.
Ln8 == <<0, 69314718, 109861229, 138629436, 160943791, 179175947, 194591015>>
\* Math.sqrt(n) for n = 1..5.
Sqrt8 == <<100000000, 141421356, 173205081, 200000000, 223606798>>
\* Math.log(p / q) for the quotients 1 + n / (1 + df) = p / q that occur, one
\* logarithm of the quotient each.
LnRatio8 ==
  (<<3, 2>> :> 40546511) @@ (<<4, 2>> :> 69314718) @@ (<<5, 2>> :> 91629073) @@
  (<<6, 2>> :> 109861229) @@ (<<5, 3>> :> 51082562) @@ (<<6, 3>> :> 69314718) @@
  (<<7, 3>> :> 84729786) @@ (<<7, 4>> :> 55961579) @@ (<<8, 4>> :> 69314718) @@
  (<<9, 5>> :> 58778666)

\* a * b, rounded to the unit: the product by halves of four digits, so that
\* no intermediate value leaves 32 bits.
Mul8(a, b) ==
  LET a1 == a \div 10000
      a0 == a % 10000
      b1 == b \div 10000
      b0 == b % 10000
      mid == a1 * b0 + a0 * b1 + (a0 * b0) \div 10000
  IN a1 * b1 + (mid + 5000) \div 10000

\* s / d to eight places, digit by digit.
RECURSIVE DivDigits(_, _, _, _)
DivDigits(r, d, n, acc) ==
  IF n = 0 THEN acc
  ELSE DivDigits((r * 10) % d, d, n - 1, acc * 10 + (r * 10) \div d)
Div8(s, d) == DivDigits(s % d, d, 8, s \div d)

\* idf = Math.log(1 + docs.length / (1 + postings.size))
Idf(n, df) == LnRatio8[<<1 + df + n, 1 + df>>]
\* (1 + Math.log(1 + tf)) * idf
TermScore(tf, idf) == Mul8(100000000 + Ln8[1 + tf], idf)

\* scores.set(idx, (scores.get(idx) || 0) + v): a Map keeps its keys in the
\* order of their first insertion.
AddScore(scores, idx, v) ==
  IF \E j \in DOMAIN scores : scores[j].index = idx
  THEN [j \in DOMAIN scores |->
          IF scores[j].index = idx
          THEN [index |-> idx, s |-> scores[j].s + v] ELSE scores[j]]
  ELSE Append(scores, [index |-> idx, s |-> v])

\* postings.forEach((tf, idx) => ...)
RECURSIVE AddPostings(_, _, _, _, _)
AddPostings(p, tok, idf, ds, scores) ==
  IF p = <<>> THEN scores
  ELSE AddPostings(Tail(p), tok, idf, ds,
         AddScore(scores, Head(p),
                  TermScore(TermFrequency(tok, ds[Head(p)]), idf)))

\* q.forEach(tok => ...): a token no document holds adds nothing.
RECURSIVE LexScores(_, _, _)
LexScores(q, ds, scores) ==
  IF q = <<>> THEN scores
  ELSE LET postings == Postings(Head(q), ds)
       IN IF postings = <<>>
          THEN LexScores(Tail(q), ds, scores)
          ELSE LexScores(Tail(q), ds,
                 AddPostings(postings, Head(q), Idf(Len(ds), Len(postings)),
                             ds, scores))

\* search(query, limit) of loadLibraryCsv: the scores divided by
\* Math.sqrt(Math.max(1, tokens.length)), sorted, cut, and printed with four
\* places (score: in units of 0.0001).
LexSearch(ds, query, limit) ==
  LET scores == LexScores(tokenize(query), ds, <<>>)
      normed == [j \in 1..Len(scores) |->
                   [index |-> scores[j].index,
                    similarity |->
                      [ok  |-> TRUE,
                       num |-> Div8(scores[j].s,
                                    Sqrt8[IF Len(ds[scores[j].index].tokens) > 1
                                          THEN Len(ds[scores[j].index].tokens)
                                          ELSE 1]),
                       den |-> 1]]]
      ranked == SliceTop(SortDesc(normed, <<>>), limit)
  IN [j \in 1..Len(ranked) |->
        [id    |-> ds[ranked[j].index].id,
         text  |-> ds[ranked[j].index].text,
         score |-> (ranked[j].similarity.num + 5000) \div 10000,
         index |-> ranked[j].index]]

\* A library file is read by loadLibraryCsv and searched once.
LexApply ==
  /\ call.fn = "lex"
  /\ ~ret.done
  /\ ret' = [done    |-> TRUE,
             docs    |-> LexDocs(call.rows),
             results |-> LexSearch(LexDocs(call.rows), call.query, call.limit)]
  /\ UNCHANGED <<call, coordVars, storeVars, cacheVars, tokVars, searchVars>>

\* --------------------------- specification: one call of the coordinator

\* A caller invokes generateBatchEmbeddings with some texts and options.
Call ==
  \E n \in 0..MaxTexts, bs \in 1..MaxBatchSize, mr \in 0..MaxRetriesOpt,
     dl \in {0, 1000}, iw \in {0, 10000} :
    /\ backend = "none"
    /\ Enter(InputTexts(n), bs, dl, mr, iw)
    /\ UNCHANGED driverVars

Reply == \E reply \in Replies : ProviderReply(reply)

vars == <<coordVars, driverVars>>

Init ==
  /\ CoordInit
  /\ backend = "none"
  /\ StoreIdle
  /\ CacheIdle
  /\ TokenIdle
  /\ SearchIdle
  /\ PureIdle

Next ==
  \/ Call
  \/ WarmupElapsed
  \/ Reply
  \/ BackoffElapsed
  \/ PauseElapsed

Spec == Init /\ [][Next]_vars

\* ------------- specification: the stores and the runs that fill them

\* The answers tried for the runs of the stores: one of each kind the
\* coordinator tells apart, and the list that is one vector short.
StoreReplies ==
  {r \in Replies : \/ r.status = 200 /\ r.shape \in {"right", "short"}
                   \/ r.status = 429 /\ r.marker
                   \/ r.status = 500 /\ ~r.marker}

StoreReply == \E reply \in StoreReplies : ProviderReply(reply)

\* The stores the runs start from: empty, or holding one embedded document
\* whose id was written by hand (not padded, not 1).
StoreFiles ==
  { <<>>, <<formatCSVRow(StringOf(3), <<"a">>, Embed(<<"a">>))>> }
StoreTables ==
  { <<>>, <<[id |-> 1, original_id |-> StringOf(3), text |-> <<"a">>,
             embedding |-> Embed(<<"a">>)]>> }

StoreInit ==
  /\ CoordInit
  /\ backend \in {"csv", "db"}
  /\ csv \in (IF backend = "csv" THEN StoreFiles ELSE {<<>>})
  /\ db \in (IF backend = "db" THEN StoreTables ELSE {<<>>})
  /\ lpc = "idle"
  /\ docs = <<>>
  /\ lemb = <<>>
  /\ indicesNeedingEmbeddings = <<>>
  /\ index = NoIndex
  /\ dpc = "idle"
  /\ idsToProcess = <<>>
  /\ pending = NoTx
  /\ snapshot = (IF backend = "csv" THEN csv ELSE db)
  /\ lastWrite = "none"
  /\ faulted = FALSE
  /\ serial = Len(db)
  /\ header = HeaderOk
  /\ other = NoOther
  /\ addCtx = NoAdd
  /\ CacheIdle
  /\ TokenIdle
  /\ SearchIdle
  /\ PureIdle

StoreNext ==
  \/ LoadStart
  \/ AddTexts
  \/ ExternalEdit
  \/ LoadFinish
  \/ DbGenStart
  \/ DbAddTexts
  \/ DbAddInsert
  \/ DbAddCommit
  \/ DbAddEmbed
  \/ DbGenFinish
  \/ DbUpdateStep
  \/ DbCommit
  \/ WarmupElapsed
  \/ StoreReply
  \/ BackoffElapsed
  \/ PauseElapsed

SpecStore == StoreInit /\ [][StoreNext]_vars

\* ------------- specification: the 2-field library and its JSON cache

\* The answers tried for the runs of the cached load.
CacheReplies ==
  {r \in Replies : \/ r.status = 200 /\ r.shape \in {"right", "short"}
                   \/ r.status = 500 /\ ~r.marker}

CacheReply == \E reply \in CacheReplies : ProviderReply(reply)

CacheInit ==
  /\ CoordInit
  /\ backend = "cache"
  /\ StoreIdle
  /\ cvariant \in {"local", "aicore"}
  /\ store2 = <<>>
  /\ cacheFile = NoCache
  /\ cpc = "idle"
  /\ cindex = NoCacheIndex
  /\ written = NoCacheData
  /\ cread = NoCacheRead
  /\ TokenIdle
  /\ SearchIdle
  /\ PureIdle

CacheNext ==
  \/ CacheLoadStart
  \/ RegenerateAll
  \/ LocalModelLoaded
  \/ LocalEmbedded
  \/ CacheLoadFinish
  \/ ExternalEditDuringLoad
  \/ ExternalAppend2
  \/ ExternalEdit2
  \/ CacheCorrupted
  \/ Upgrade
  \/ WarmupElapsed
  \/ CacheReply

SpecCache == CacheInit /\ [][CacheNext]_vars

\* ------------- specification: the runs of every persisted store

\* The runs that fill the 3-field file and the database, and the loads of
\* the JSON-cache variants for libraries of up to MaxRows rows, with the
\* answers of StoreReplies (a 429 with the marker among them).
PersistInit == StoreInit \/ CacheInit

PersistNext ==
  \/ StoreNext
  \/ CacheLoadStart
  \/ RegenerateAll
  \/ LocalModelLoaded
  \/ LocalEmbedded
  \/ CacheLoadFinish
  \/ ExternalAppendShort
  \/ CacheCorrupted

SpecPersist == PersistInit /\ [][PersistNext]_vars

\* ------------- specification: searches on the index of a library file

\* The rows a library file is made of: with and without an id, with equal and
\* different texts, with vectors of text-embedding-3-small and one of the
\* in-process model (a file converted from an old cache).
LibraryRows ==
  { formatCSVRow(StringOf(1), <<"a">>, Embed(<<"a">>)),
    formatCSVRow(EmptyId, <<"a">>, Embed(<<"a">>)),
    formatCSVRow(StringOf(2), <<"b">>, Embed(<<"b">>)),
    formatCSVRow(StringOf(3), <<"b">>, EmbedLocal(<<"b">>)) }

LibraryFiles == UNION {[1..n -> LibraryRows] : n \in 0..MaxCorpus}

\* The answers tried for the query's embedding.
SearchReplies ==
  {r \in Replies : \/ r.status = 200 /\ r.shape \in {"right", "short"}
                   \/ r.status = 500 /\ ~r.marker}

SearchStart == \E s \in Searchers : SearchCall(s)
SearchAnswer == \E s \in Searchers : \E reply \in SearchReplies : SearchReply(s, reply)
SearchDone == \E s \in Searchers : SearchEnd(s)

SearchInit ==
  /\ CoordInit
  /\ backend = "csv"
  /\ csv \in LibraryFiles
  /\ db = <<>>
  /\ lpc = "idle"
  /\ docs = <<>>
  /\ lemb = <<>>
  /\ indicesNeedingEmbeddings = <<>>
  /\ index = NoIndex
  /\ dpc = "idle"
  /\ idsToProcess = <<>>
  /\ pending = NoTx
  /\ snapshot = csv
  /\ lastWrite = "none"
  /\ faulted = FALSE
  /\ serial = Len(db)
  /\ header = HeaderOk
  /\ other = NoOther
  /\ addCtx = NoAdd
  /\ CacheIdle
  /\ TokenIdle
  /\ SearchIdle
  /\ PureIdle

SearchNext ==
  \/ LoadStart
  \/ SearchStart
  \/ SearchAnswer
  \/ SearchDone

SpecSearch == SearchInit /\ [][SearchNext]_vars

\* ------------- specification: a server answering searches while its
\* ------------- store is being filled

\* The library file the server starts with: rows still lack their vectors.
ServeFiles ==
  { <<formatCSVRow(StringOf(1), <<"a">>, NoVector)>>,
    <<formatCSVRow(StringOf(1), <<"a">>, Embed(<<"a">>)),
      formatCSVRow(StringOf(2), <<"b">>, NoVector)>> }

\* The answers tried for the runs and for the query's embedding.
ServeReplies ==
  {r \in Replies : \/ r.status = 200 /\ r.shape = "right"
                   \/ r.status = 500 /\ ~r.marker}

ServeReply == \E reply \in ServeReplies : ProviderReply(reply)
ServeRefuse == \E s \in Searchers : SearchRefused(s)
ServeSearchAnswer ==
  \E s \in Searchers : \E reply \in ServeReplies : SearchReply(s, reply)
\* The requests the database server is sent: one at a time.
DbSearchers == {1}

DbSearchStart == \E s \in DbSearchers : DbSearchCall(s)
DbSearchAnswer ==
  \E s \in DbSearchers : \E reply \in ServeReplies : DbSearchEmbedded(s, reply)
DbSearchRows == \E s \in DbSearchers : DbSearchSelect(s)
DbServeRefuse == \E s \in DbSearchers : DbSearchRefused(s)

ServeInit ==
  /\ CoordInit
  /\ backend \in {"csv", "db"}
  /\ csv \in (IF backend = "csv" THEN ServeFiles ELSE {<<>>})
  /\ db = <<>>
  /\ lpc = "idle"
  /\ docs = <<>>
  /\ lemb = <<>>
  /\ indicesNeedingEmbeddings = <<>>
  /\ index = NoIndex
  /\ dpc = "idle"
  /\ idsToProcess = <<>>
  /\ pending = NoTx
  /\ snapshot = csv
  /\ lastWrite = "none"
  /\ faulted = FALSE
  /\ serial = Len(db)
  /\ header = HeaderOk
  /\ other = NoOther
  /\ addCtx = NoAdd
  /\ CacheIdle
  /\ TokenIdle
  /\ spc = [s \in Searchers |-> "idle"]
  /\ sreq = [s \in Searchers |-> NoRequest]
  /\ sres = [s \in Searchers |-> NoResult]
  /\ dbClient \in (IF backend = "db" THEN {"null", "initializing"} ELSE {"null"})
  /\ PureIdle

ServeNext ==
  \/ DbInitialized
  \/ DbCounted
  \/ DbServeRefuse
  \/ LoadStart
  \/ LoadFinish
  \/ DbGenStart
  \/ DbAddTexts
  \/ DbAddInsert
  \/ DbAddCommit
  \/ DbAddEmbed
  \/ DbGenFinish
  \/ DbUpdateStep
  \/ DbCommit
  \/ WarmupElapsed
  \/ ServeReply
  \/ PauseElapsed
  \/ ServeRefuse
  \/ SearchStart
  \/ ServeSearchAnswer
  \/ DbSearchStart
  \/ DbSearchAnswer
  \/ DbSearchRows
  \/ SearchDone

SpecServe == ServeInit /\ [][ServeNext]_vars

\* ------------- specification: searches, with the requests each one makes

\* The answers of the embeddings endpoint to a query.
QueryReplies ==
  {r \in Replies : \/ r.status = 200 /\ r.shape = "right"
                   \/ r.status = 500 /\ ~r.marker}

\* The library file the server has loaded.
QueryFiles ==
  { <<formatCSVRow(StringOf(1), <<"a">>, Embed(<<"a">>)),
      formatCSVRow(StringOf(2), <<"b">>, Embed(<<"b">>))>> }

QueryInit ==
  /\ CoordInit
  /\ backend = "csv"
  /\ csv \in QueryFiles
  /\ db = <<>>
  /\ lpc = "idle"
  /\ docs = <<>>
  /\ lemb = <<>>
  /\ indicesNeedingEmbeddings = <<>>
  /\ index = NoIndex
  /\ dpc = "idle"
  /\ idsToProcess = <<>>
  /\ pending = NoTx
  /\ snapshot = csv
  /\ lastWrite = "none"
  /\ faulted = FALSE
  /\ serial = Len(db)
  /\ header = HeaderOk
  /\ other = NoOther
  /\ addCtx = NoAdd
  /\ CacheIdle
  /\ TokenIdle
  /\ SearchIdle
  /\ PureIdle

QueryStart == \E s \in Searchers : QueryCall(s)
QueryToken == \E s \in Searchers : QueryTokenResponse(s)
QueryAnswer ==
  \E s \in Searchers : \E reply \in QueryReplies : SearchReply(s, reply)
QueryTimeout == \E s \in Searchers : QueryEmbeddingTimeout(s)

QueryNext ==
  \/ LoadStart
  \/ QueryStart
  \/ QueryToken
  \/ QueryAnswer
  \/ QueryTimeout
  \/ SearchDone
  \/ Tick

\* The timer of an embeddings request fires unless the answer comes first,
\* and the route sends its response once search has settled. Nothing bounds
\* the wait for the token endpoint: no fairness is stated for its answer.
QueryFairness ==
  \A s \in Searchers :
    WF_vars(QueryEmbeddingTimeout(s)) /\ WF_vars(SearchEnd(s))

SpecQuery == QueryInit /\ [][QueryNext]_vars /\ QueryFairness

\* ------------- specification: appends beside a load of the same file

ShareInit ==
  /\ CoordInit
  /\ backend = "csv"
  /\ csv \in ServeFiles
  /\ db = <<>>
  /\ lpc = "idle"
  /\ docs = <<>>
  /\ lemb = <<>>
  /\ indicesNeedingEmbeddings = <<>>
  /\ index = NoIndex
  /\ dpc = "idle"
  /\ idsToProcess = <<>>
  /\ pending = NoTx
  /\ snapshot = csv
  /\ lastWrite = "none"
  /\ faulted = FALSE
  /\ serial = Len(db)
  /\ header = HeaderOk
  /\ other = NoOther
  /\ addCtx = NoAdd
  /\ CacheIdle
  /\ TokenIdle
  /\ SearchIdle
  /\ PureIdle

ShareNext ==
  \/ LoadStart
  \/ AddTexts
  \/ LoadFinish
  \/ ConcurrentAdd
  \/ ConcurrentFinish
  \/ WarmupElapsed
  \/ ServeReply
  \/ PauseElapsed

SpecShare == ShareInit /\ [][ShareNext]_vars

\* ------------- specification: a library migrated to the 3-field format

MigrateNext ==
  \/ CacheLoadStart
  \/ LocalModelLoaded
  \/ LocalEmbedded
  \/ CacheLoadFinish
  \/ ExternalAppendShort
  \/ ExternalEdit2
  \/ Migrate
  \/ LoadStart
  \/ LoadFinish
  \/ WarmupElapsed
  \/ StoreReply
  \/ PauseElapsed

SpecMigrate == CacheInit /\ [][MigrateNext]_vars

\* ------------- specification: two sessions of the database

SessionsInit ==
  /\ CoordInit
  /\ backend = "db"
  /\ csv = <<>>
  /\ db \in StoreTables
  /\ lpc = "idle"
  /\ docs = <<>>
  /\ lemb = <<>>
  /\ indicesNeedingEmbeddings = <<>>
  /\ index = NoIndex
  /\ dpc = "idle"
  /\ idsToProcess = <<>>
  /\ pending = NoTx
  /\ snapshot = db
  /\ lastWrite = "none"
  /\ faulted = FALSE
  /\ serial = Len(db)
  /\ header = HeaderOk
  /\ other = NoOther
  /\ addCtx = NoAdd
  /\ CacheIdle
  /\ TokenIdle
  /\ SearchIdle
  /\ PureIdle

SessionsNext ==
  \/ DbGenStart
  \/ DbAddTexts
  \/ DbAddInsert
  \/ DbAddCommit
  \/ DbAddEmbed
  \/ DbGenFinish
  \/ DbUpdateStep
  \/ DbCommit
  \/ DbOtherRead
  \/ DbOtherInsert
  \/ DbOtherCommit
  \/ DbOtherSelect
  \/ DbOtherFinish
  \/ WarmupElapsed
  \/ StoreReply
  \/ BackoffElapsed
  \/ PauseElapsed

SpecSessions == SessionsInit /\ [][SessionsNext]_vars

\* ------------- specification: the migration of a CSV file to PostgreSQL

\* The files migrated: rows with or without text, with or without a stored
\* embedding.
PgFiles ==
  UNION {{[k \in 1..n |-> formatCSVRow(StringOf(k), ts[k],
                            IF es[k] THEN Embed(ts[k]) ELSE NoVector)] :
            ts \in [1..n -> {<<>>, <<" ">>, <<"a">>}], es \in [1..n -> BOOLEAN]} :
         n \in 1..MaxRows}

PgInit ==
  /\ CoordInit
  /\ backend = "db"
  /\ csv \in PgFiles
  /\ db \in StoreTables
  /\ lpc = "idle"
  /\ docs = <<>>
  /\ lemb = <<>>
  /\ indicesNeedingEmbeddings = <<>>
  /\ index = NoIndex
  /\ dpc = "idle"
  /\ idsToProcess = <<>>
  /\ pending = NoTx
  /\ snapshot = db
  /\ lastWrite = "none"
  /\ faulted = FALSE
  /\ serial = Len(db)
  /\ header = HeaderOk
  /\ other = NoOther
  /\ addCtx = NoAdd
  /\ CacheIdle
  /\ TokenIdle
  /\ SearchIdle
  /\ PureIdle

PgNext ==
  \/ PgMigrateStart
  \/ PgInitialized
  \/ PgCounted
  \/ PgAnswered
  \/ PgConnected
  \/ PgBegun
  \/ PgInsertStep
  \/ PgCommit
  \/ PgEmbed
  \/ PgEndStats
  \/ DbGenFinish
  \/ DbUpdateStep
  \/ DbCommit
  \/ WarmupElapsed
  \/ StoreReply
  \/ BackoffElapsed
  \/ PauseElapsed

SpecPg == PgInit /\ [][PgNext]_vars

\* ------------- specification: files with rows that lack a text

\* Most data rows of such a file.
MaxBlankRows == 2

\* The text fields tried: nothing, one blank, a letter.
BlankTexts == {<<>>, <<" ">>, <<"a">>}
BlankFiles ==
  UNION {{[k \in 1..n |-> formatCSVRow(StringOf(k), ts[k], NoVector)] :
            ts \in [1..n -> BlankTexts]} : n \in 1..MaxBlankRows}

BlankInit ==
  /\ CoordInit
  /\ backend = "csv"
  /\ csv \in BlankFiles
  /\ db = <<>>
  /\ lpc = "idle"
  /\ docs = <<>>
  /\ lemb = <<>>
  /\ indicesNeedingEmbeddings = <<>>
  /\ index = NoIndex
  /\ dpc = "idle"
  /\ idsToProcess = <<>>
  /\ pending = NoTx
  /\ snapshot = csv
  /\ lastWrite = "none"
  /\ faulted = FALSE
  /\ serial = Len(db)
  /\ header = HeaderOk
  /\ other = NoOther
  /\ addCtx = NoAdd
  /\ CacheIdle
  /\ TokenIdle
  /\ SearchIdle
  /\ PureIdle

BlankNext ==
  \/ LoadStart
  \/ LoadFinish
  \/ WarmupElapsed
  \/ StoreReply
  \/ BackoffElapsed
  \/ PauseElapsed

SpecBlank == BlankInit /\ [][BlankNext]_vars

\* ------------- specification: rows written and read back

RowInit ==
  /\ CoordInit
  /\ backend = "none"
  /\ StoreIdle
  /\ CacheIdle
  /\ TokenIdle
  /\ SearchIdle
  /\ call \in [fn : {"row"}, id : RowIds, text : RowTexts,
                embedding : RowEmbeddings]
  /\ ret = NoReturn

RowNext == RowRoundTrip

SpecRow == RowInit /\ [][RowNext]_vars

\* ------------- specification: lexical searches

\* The library and the query of the scenario.
ScenarioRows ==
  <<[id |-> StringOf(1), text |-> <<"apply", "grease">>],
    [id |-> StringOf(2), text |-> <<"damp", "cloth">>],
    [id |-> StringOf(3), text |-> <<"use", "solvent">>]>>
ScenarioQuery == <<"use", "a", "damp", "cloth">>

\* The other texts tried: none, and texts of one or two words, with a
\* stopword, a word written with a capital and a word twice.
LexTexts ==
  {<<>>, <<"use">>, <<"damp">>, <<"Cloth">>, <<"damp", "Cloth">>,
   <<"use", "damp">>, <<"cloth", "cloth">>}
LexLibraries ==
  {ScenarioRows} \cup
  UNION {{[k \in 1..n |-> [id |-> StringOf(k), text |-> ts[k]]] :
            ts \in [1..n -> LexTexts]} : n \in 0..MaxLexDocs}

LexInit ==
  /\ CoordInit
  /\ backend = "none"
  /\ StoreIdle
  /\ CacheIdle
  /\ TokenIdle
  /\ SearchIdle
  /\ call \in [fn : {"lex"}, rows : LexLibraries,
                query : LexTexts \cup {ScenarioQuery}, limit : {1, DefaultLimit}]
  /\ ret = NoReturn

LexNext == LexApply

SpecLex == LexInit /\ [][LexNext]_vars

\* ------------- specification: concurrent callers of getAccessToken

TokenCall == \E c \in Callers : GetAccessToken(c)
TokenAnswer == \E c \in Callers : TokenResponse(c)
TokenRelease == \E c \in Callers : CallerDone(c)

TokenNext ==
  \/ TokenCall
  \/ TokenAnswer
  \/ TokenRelease
  \/ Tick

SpecToken == Init /\ [][TokenNext]_vars

\* ------------------------------------------------------- history helpers

\* The answered provider calls made for the batch at off (log holds the calls
\* of the batch that was answered last).
CallsFor(off) == {k \in DOMAIN log : log[k].off = off}
Attempts(off) == Cardinality(CallsFor(off))
RateLimitFails(off) ==
  Cardinality({k \in CallsFor(off) : log[k].res = "rateLimit"})
Succeeded(off) == \E k \in DOMAIN succeeded : succeeded[k] = off

\* The answer is a failure, and the Error generateEmbedding surfaces for it is
\* of the rate-limit class the coordinator knows: its message names
\* TooManyRequest.
FailureReply(reply) == reply.status # 200 \/ reply.shape = "malformed"
RateLimitError(reply) ==
  FailureReply(reply) /\ reply.marker /\ reply.status \notin {401, 0}
OtherError(reply) == FailureReply(reply) /\ ~RateLimitError(reply)

\* ------------------------------------------------------------------ C1

\* C1 (as claimed): whenever generateBatchEmbeddings returns, the result has
\* exactly one vector per input text and the vector at position k is the one
\* the provider computed for texts[k], whatever the provider answered.
C1_ReturnMatchesInput ==
  gpc = "returned" =>
    /\ Len(embeddings) = Len(texts)
    /\ \A k \in 1..Len(texts) : embeddings[k] = Embed(texts[k])

\* ------------------------------------------------------------------ C2

\* C2: a batch whose provider call fails with a rate-limit error R times and
\* then succeeds: the success is attempt R + 1 and R < maxRetries; the
\* exhaustion error is raised exactly when R >= maxRetries rate-limit failures
\* were seen (none at all when maxRetries = 0); no call is attempted for a
\* batch that already has maxRetries rate-limit failures.
C2_RetryBound ==
  /\ \A k \in DOMAIN log :
       log[k].res = "ok" =>
         /\ RateLimitFails(log[k].off) < maxRetries
         /\ Attempts(log[k].off) = RateLimitFails(log[k].off) + 1
  /\ thrown = ExhaustedError =>
       /\ gpc = "threw"
       /\ RateLimitFails(i) >= maxRetries
       /\ Attempts(i) = RateLimitFails(i)
  /\ gpc = "call" => RateLimitFails(i) < maxRetries
  /\ (gpc = "threw" /\ Attempts(i) = RateLimitFails(i)) =>
       thrown = ExhaustedError

\* A batch succeeded on its last permitted attempt, after maxRetries - 1 >= 1
\* rate-limit failures.
C2_Witness ==
  /\ gpc = "returned"
  /\ \E k \in DOMAIN log :
       /\ log[k].res = "ok"
       /\ RateLimitFails(log[k].off) = maxRetries - 1
       /\ RateLimitFails(log[k].off) >= 1

\* ------------------------------------------------------------------ C3

\* C3: the step in which the provider answers a batch with an error that is
\* not of the rate-limit class ends the call: it raises that error, leaves no
\* provider call outstanding, starts no backoff, issues no other call and
\* returns nothing; and once the call has thrown, no provider call follows.
C3_HardFailureAborts ==
  [][ /\ (gpc = "call" /\ log' # log /\ OtherError(lastReply')) =>
           /\ gpc' = "threw"
           /\ thrown' = ProviderError(lastReply')
           /\ inflight' = {}
           /\ embeddings' = embeddings
      /\ gpc = "threw" => (inflight' = {} /\ log' = log /\ gpc' # "returned")
    ]_vars

\* The second batch failed hard after the first one had been accumulated.
C3_Witness ==
  /\ gpc = "threw"
  /\ thrown.kind = "provider"
  /\ Len(embeddings) > 0
  /\ i > 0

\* ------------------------------------------------------------------ C4

\* C4: at most one provider call is outstanding; the batches are called in
\* ascending input order; a batch is called only when every batch before it
\* has succeeded.
BatchOffsets(off) == {o \in 0..(off - 1) : o % batchSize = 0}
C4_Sequential ==
  /\ Cardinality(inflight) <= 1
  /\ \A off \in inflight \cup {log[k].off : k \in DOMAIN log}
                \cup {succeeded[k] : k \in DOMAIN succeeded} :
       /\ off % batchSize = 0
       /\ \A o \in BatchOffsets(off) : Succeeded(o)
  /\ \A k \in DOMAIN succeeded : \A j \in DOMAIN succeeded :
       k < j => succeeded[k] < succeeded[j]
  /\ \A off \in inflight :
       /\ \A k \in DOMAIN log : log[k].off <= off
       /\ \A k \in DOMAIN succeeded : succeeded[k] < off

\* The call of the third batch is outstanding.
C4_Witness ==
  /\ gpc = "call"
  /\ inflight = {i}
  /\ i >= 2 * batchSize
\* ------------------------------------------------------------------ C5

\* C5 (as claimed): while the provider call of a later batch is outstanding,
\* the vectors of all earlier batches of the run are already in the persisted
\* store (the CSV rows of a load, the table rows of generateMissingEmbeddings).
C5_Checkpointed ==
  (gpc = "call" /\ i > 0) =>
    /\ lpc = "loading" =>
         \A k \in 1..i :
           Parsed(csv).emb[indicesNeedingEmbeddings[k]] # NoVector
    /\ dpc = "embedding" =>
         \A k \in 1..i : \A r \in DOMAIN db :
           db[r].id = idsToProcess[k] => db[r].embedding # NoVector

\* ------------------------------------------------------------------ C6

\* C6 (as claimed): the load returns the cache's vectors only if the cache's
\* documents are, position by position, the documents of the current store
\* (same count, same id and text everywhere) and the cache was written for the
\* model in use.
C6_CacheValidity ==
  (cpc = "returned" /\ cindex.ready /\ cindex.reused) =>
    /\ JsonParses(cacheFile)
    /\ JsonParse(cacheFile).docs = Docs2
    /\ cvariant = "aicore" => JsonParse(cacheFile).model = AiCoreModel
    /\ cvariant = "local" => JsonParse(cacheFile).model = NoModel

\* ------------------------------------------------------------------ C7

\* C7 (as claimed): after addTextsToLibrary on a store of N fully embedded
\* documents with M new texts, the index has N + M embeddings, the first N
\* unchanged, and the texts handed to the provider are the M new texts.
C7_AppendAsClaimed ==
  /\ (lpc = "returned" /\ addCtx.active /\ addCtx.full) =>
       /\ Len(index.embeddings) = Len(addCtx.old) + Len(addCtx.new)
       /\ \A k \in 1..Len(addCtx.old) : index.embeddings[k] = addCtx.old[k]
  /\ (lpc = "loading" /\ addCtx.active /\ addCtx.full) =>
       texts = [k \in 1..Len(addCtx.new) |-> Trim(addCtx.new[k])]

\* ------------------------------------------------------------------ C8

\* C8 (as claimed): at most one token request is outstanding at any time.
C8_SingleFlight ==
  Cardinality({c \in Callers : tpc[c] = "requesting"}) <= 1

\* ------------------------------------------------------------------ C9

\* C9 (as claimed): every vector of an index returned by the load was computed
\* from the current text of its document.
C9_NoStaleVector ==
  index.ready =>
    \A k \in 1..Len(index.docs) :
      index.embeddings[k] = Embed(index.docs[k].text)

\* ------------------------------------------------------------------ C10

\* C10: while a run is under way nothing of it is persisted, and a run that
\* failed (retries exhausted, a hard provider failure, a count mismatch)
\* returns no index and leaves the persisted store as it was when the run
\* began (a call that failed on a write of the file is not such a run): the
\* CSV file, the rows of text_library, and the cache file of the JSON-cache
\* variants.
C10_NoPartialApplication ==
  /\ lpc = "loading" => (csv = snapshot /\ ~index.ready)
  /\ (lpc = "failed" /\ lastWrite = "none") => (csv = snapshot /\ ~index.ready)
  /\ dpc \in {"embedding", "writing", "failed"} => db = snapshot
  /\ cpc \in {"initializing", "embedding", "computing", "failed"} =>
       (cacheFile = snapshot /\ cindex = NoCacheIndex)

\* A load failed on exhausted retries after an earlier batch had succeeded.
C10_Witness ==
  /\ lpc = "failed"
  /\ thrown = ExhaustedError
  /\ Len(succeeded) >= 1

\* ------------------------------------------------------------------ C11

\* C11 (as claimed): a batch answered with the wrong number of vectors makes
\* the run fail and nothing of it is stored; in particular every vector
\* generateMissingEmbeddings wrote to a row of text_library was produced from
\* that row's text.
C11_MismatchFatal ==
  /\ \A r \in DOMAIN db :
       db[r].embedding # NoVector => db[r].embedding = Embed(db[r].text)
  /\ dpc = "done" => MissingRows(db) = <<>>

\* ------------------------------------------------------------------ C18

\* C18 (as claimed): a failed provider call is retried if and only if the
\* response was a 429: after a 429 the coordinator backs off whatever the
\* body says, after any other failure it throws without another call.
C18_ClassifiedByStatus ==
  /\ gpc = "backoff" => lastReply.status = 429
  /\ (gpc = "threw" /\ thrown.kind = "provider") => thrown.status # 429

\* ------------------------------------------------------------------ C19

\* The token granted last is still earlier than its expiry minus the margin.
GrantFresh ==
  grant.token # NoToken /\ now < grant.at + grant.expires_in * 1000 - Margin

\* C19: getAccessToken posts a token request only when the token granted last
\* has reached its expiry minus the 5 minute margin (or none was granted), and
\* returns the cached token, the one granted last, only before that time.
C19_TokenCaching ==
  [][ \A c \in Callers :
        /\ (tpc[c] = "idle" /\ tpc'[c] = "requesting") => ~GrantFresh
        /\ (tpc[c] = "idle" /\ tpc'[c] = "done") =>
              (GrantFresh /\ held'[c] = grant.token)
    ]_vars

\* Two callers hold the token granted last, at a time later than the grant:
\* at least one of them got it from the cache.
C19_Witness ==
  /\ issued >= 1
  /\ \E c1, c2 \in Callers :
       c1 # c2 /\ held[c1] = grant.token /\ held[c2] = grant.token
  /\ grant.token # NoToken
  /\ now > grant.at

\* ------------------------------------------------------------------ C12

\* C12 (as claimed): the results of a search are strictly descending by
\* score.
C12_StrictlyDescending ==
  \A s \in Searchers :
    spc[s] = "resolved" =>
      \A j \in 1..(Len(sres[s].results) - 1) :
        sres[s].results[j].score > sres[s].results[j + 1].score

\* C12 (amended): the results of a search are descending by score: no result
\* has a smaller score than the result after it.
C12_Descending ==
  \A s \in Searchers :
    spc[s] = "resolved" =>
      \A j \in 1..(Len(sres[s].results) - 1) :
        sres[s].results[j].score >= sres[s].results[j + 1].score

\* A search resolved with two results of different score, the document that
\* is later in the corpus first.
C12_Witness ==
  \E s \in Searchers :
    /\ spc[s] = "resolved"
    /\ Len(sres[s].results) >= 2
    /\ sres[s].results[1].score > sres[s].results[2].score
    /\ sres[s].results[1].index > sres[s].results[2].index

\* ------------------------------------------------------------------ C13

\* The ids written in the file are pairwise different.
ExplicitIdsDistinct(rows) ==
  \A j \in DOMAIN rows : \A k \in DOMAIN rows :
    (j # k /\ rows[j].id # EmptyId /\ rows[k].id # EmptyId) =>
      rows[j].id # rows[k].id

\* C13 (as claimed): a search on the index loaded from a file, some of whose
\* rows have no id, never returns two results with the same id.
C13_UniqueIds ==
  \A s \in Searchers :
    (spc[s] = "resolved" /\ ExplicitIdsDistinct(csv)) =>
      \A j \in DOMAIN sres[s].results : \A k \in DOMAIN sres[s].results :
        j # k => sres[s].results[j].id # sres[s].results[k].id

\* ------------------------------------------------------------------ C14

\* C14 (as claimed): a search returns at most limit results (none for a limit
\* below 0), and exactly min(limit, corpus size) for a limit of 0 or more.
C14_AtMostLimit ==
  \A s \in Searchers :
    spc[s] = "resolved" =>
      /\ Len(sres[s].results) <= (IF sreq[s].limit > 0 THEN sreq[s].limit ELSE 0)
      /\ sreq[s].limit >= 0 =>
           Len(sres[s].results) = Min(sreq[s].limit, Len(index.docs))

\* ------------------------------------------------------------------ C15

\* The similarity of the query of request s with the document of a result.
SimilarityOf(s, result) ==
  cosineSimilarity(sreq[s].qv, index.embeddings[result.index])

\* C15: two results of equal similarity are in corpus order.
C15_TieOrder ==
  \A s \in Searchers :
    spc[s] = "resolved" =>
      \A j \in DOMAIN sres[s].results : \A k \in DOMAIN sres[s].results :
        (j < k /\ SameSimilarity(SimilarityOf(s, sres[s].results[j]),
                                 SimilarityOf(s, sres[s].results[k]))) =>
          sres[s].results[j].index < sres[s].results[k].index

\* A search resolved with two results of equal similarity.
C15_Witness ==
  \E s \in Searchers :
    /\ spc[s] = "resolved"
    /\ Len(sres[s].results) >= 2
    /\ SameSimilarity(SimilarityOf(s, sres[s].results[1]),
                      SimilarityOf(s, sres[s].results[2]))

\* ------------------------------------------------------------------ C17

\* C17: a search whose query vector differs in length from some vector of the
\* corpus rejects with the length error and has no results.
C17_DimensionMismatch ==
  \A s \in Searchers :
    (/\ spc[s] \in {"resolved", "rejected"}
     /\ sreq[s].qv # NoVector
     /\ \E k \in DOMAIN index.embeddings :
          index.embeddings[k].dim # sreq[s].qv.dim) =>
      /\ spc[s] = "rejected"
      /\ sres[s].kind = "error"
      /\ sres[s].error = "length"
      /\ sres[s].results = <<>>

\* A search was rejected for the length of the second vector of a corpus
\* whose first vector has the query vector's length.
C17_Witness ==
  \E s \in Searchers :
    /\ spc[s] = "rejected"
    /\ sres[s].error = "length"
    /\ Len(index.embeddings) >= 2
    /\ index.embeddings[1].dim = sreq[s].qv.dim
    /\ index.embeddings[2].dim # sreq[s].qv.dim

\* ------------------------------------------------------------------ C20

\* C20: a search that reads the table while generateMissingEmbeddings is
\* under way compares the query with exactly the vectors stored when the run
\* began, none of the run's own; a search on the file-backed server runs only
\* on an assigned index, which holds a vector for every document.
C20_AtomicSwap ==
  \A s \in Searchers :
    /\ sres[s].seen.phase = "run" => sres[s].seen.vectors = sres[s].seen.before
    /\ (backend = "csv" /\ spc[s] \in {"embedding", "resolved"}) =>
         /\ index.ready
         /\ Len(index.embeddings) = Len(index.docs)
         /\ \A k \in DOMAIN index.embeddings : index.embeddings[k] # NoVector

\* A search read the table after an UPDATE of the run's transaction and
\* before its COMMIT, and found the vectors of an earlier run.
C20_Witness ==
  \E s \in Searchers :
    /\ spc[s] = "resolved"
    /\ sres[s].seen.phase = "run"
    /\ sres[s].seen.k >= 1
    /\ Len(sres[s].seen.vectors) >= 1
\* ------------------------------------------------------------------ C21

\* C21: every search call that has been made eventually completes, with a
\* result list or with an error, whatever the token endpoint and the
\* embeddings endpoint do.
C21_NeverHangs ==
  \A s \in Searchers :
    (spc[s] \in {"token", "embedding"}) ~> (spc[s] \in {"resolved", "rejected"})

\* ------------------------------------------------------------------ C22

\* C22: when the rewrite of the 3-field CSV fails after the vectors were
\* computed, loadLibraryEmbeddings still returns an index that holds a vector
\* for every document (the failure to persist is not fatal).
C22_PersistenceNonFatal ==
  (backend = "csv" /\ lastWrite = "failed") =>
    /\ lpc = "returned"
    /\ index.ready
    /\ Len(index.embeddings) = Len(index.docs)

\* ------------------------------------------------------------------ C23

\* C23: what a load reads from the cache file is what the load that wrote
\* the file had returned: the same docs and embeddings in the same order, the
\* same model and dimensions. And a load that takes its vectors from the
\* cache returns those embeddings, that model and those dimensions, with
\* as many docs, which are the same in the positions the load compares.
C23_RoundTrip ==
  /\ cread.parsed =>
       /\ cread.cached.docs = written.docs
       /\ cread.cached.embeddings = written.embeddings
       /\ cread.cached.model = written.model
       /\ cread.cached.dimensions = written.dimensions
  /\ (cpc = "returned" /\ cindex.ready /\ cindex.reused) =>
       /\ cread.parsed
       /\ cindex.embeddings = written.embeddings
       /\ cindex.model = written.model
       /\ cindex.dimensions = written.dimensions
       /\ Len(cindex.docs) = Len(written.docs)
       /\ \A k \in 1..Min(SampleSize, Len(cindex.docs)) :
            cindex.docs[k] = written.docs[k]

\* A load has returned the vectors of a cache written by an earlier load, for
\* a library of two documents with different vectors.
C23_Witness ==
  /\ cpc = "returned"
  /\ cindex.ready
  /\ cindex.reused
  /\ cread.parsed
  /\ cvariant = "aicore"
  /\ Len(cindex.embeddings) >= 2
  /\ cindex.embeddings[1] # cindex.embeddings[2]
  /\ cindex.dimensions.defined
  /\ \E k \in DOMAIN cread.cached.docs :
       \E j \in DOMAIN cread.cached.docs[k].text :
         cread.cached.docs[k].text[j] = Quote

\* ------------------------------------------------------------------ C24

\* C24: a load that does not accept the cache recomputes everything: the
\* texts of all documents it has read are sent to the provider, no index exists
\* meanwhile, and every vector of the index it returns is the vector computed
\* for the document at that position, none taken from the cache.
C24_FullRecompute ==
  /\ cpc = "computing" =>
       /\ Len(texts) = Len(docs)
       /\ \A k \in DOMAIN texts : texts[k] = docs[k].text
       /\ cindex = NoCacheIndex
  /\ cpc \in {"initializing", "embedding"} =>
       /\ cindex = NoCacheIndex
       /\ \A k \in DOMAIN lemb : lemb[k] = EmbedLocal(docs[k].text)
  /\ (cpc = "returned" /\ cindex.ready /\ ~cindex.reused) =>
       /\ Len(cindex.embeddings) = Len(cindex.docs)
       /\ \A k \in DOMAIN cindex.embeddings :
            cindex.embeddings[k] = IF cvariant = "aicore"
                                   THEN Embed(cindex.docs[k].text)
                                   ELSE EmbedLocal(cindex.docs[k].text)

\* A recompute is under way although a cache file is there: it parses and
\* has the right number of documents (its content or its model was
\* rejected), and it agrees with the library on some document.
C24_Witness ==
  /\ cpc = "computing"
  /\ JsonParses(cacheFile)
  /\ Len(JsonParse(cacheFile).docs) = Len(docs)
  /\ Len(docs) >= 2
  /\ \E k \in DOMAIN docs : JsonParse(cacheFile).docs[k] = docs[k]

\* ------------------------------------------------------------------ C25

\* The ids newIds, in order, are what an append to a store holding oldIds
\* must assign: with base the largest number among oldIds (0 when there is
\* none), the k-th of them is base + k in 8 digits; they differ from each
\* other and from every id of oldIds.
AppendedIds(oldIds, newIds) ==
  LET nums == {ParseInt(oldIds[j]) : j \in DOMAIN oldIds} \cup {0}
      base == CHOOSE b \in nums : \A n \in nums : n <= b
  IN /\ \A k \in DOMAIN newIds : newIds[k] = [n |-> base + k, w |-> IdWidth]
     /\ \A k \in DOMAIN newIds : \A j \in DOMAIN newIds :
          k # j => newIds[k] # newIds[j]
     /\ \A k \in DOMAIN newIds : \A j \in DOMAIN oldIds : newIds[k] # oldIds[j]

\* C25: the rows an append has added (addTextsToLibrary: for each new text
\* the line that starts with its id, after the lines that were in the file,
\* while its load runs; DatabaseClient.addTexts: the last rows of the table)
\* carry the ids max(existing numeric ids, 0) + i + 1, zero-padded to
\* 8 digits, pairwise distinct and different from the ids that were there.
C25_AppendIds ==
  /\ (backend = "csv" /\ addCtx.active /\ lpc = "loading") =>
       LET n == addCtx.at[1] - 1 IN
       AppendedIds([k \in 1..n |-> csv[k].id],
                   [k \in 1..Len(addCtx.new) |-> csv[addCtx.at[k]].id])
  /\ (backend = "db" /\ addCtx.active) =>
       LET n == Len(db) - Len(addCtx.new) IN
       AppendedIds([k \in 1..n |-> db[k].original_id],
                   [k \in 1..Len(addCtx.new) |-> db[n + k].original_id])

\* A text was appended to a file that held a document already, and the
\* highest id of the file is not the number of its rows.
C25_Witness ==
  /\ backend = "csv"
  /\ addCtx.active
  /\ lpc = "loading"
  /\ Len(csv) > Len(addCtx.new)
  /\ csv[1].id.n > Len(csv)

\* ------------------------------------------------------------------ C26

\* C26: a document that addTextsToLibrary has appended stays in the file,
\* whatever loads of the same file do meanwhile: as long as the appending
\* call is under way, the row it added is in the file.
C26_AppendOnly ==
  other.pc = "loading" =>
    \A j \in DOMAIN other.added :
      \E k \in DOMAIN csv :
        /\ csv[k].id = other.added[j].id
        /\ Trim(csv[k].text) = Trim(other.added[j].text)

\* ------------------------------------------------------------------ C27

\* C27: parseCSVRow(formatCSVRow(id, text, embedding)) has exactly three
\* fields: the id, the text as it was (commas and quotes included), and the
\* JSON text of the embedding, or the empty string when there is none.
C27_RowRoundTrip ==
  (call.fn = "row" /\ ret.done) =>
    ret.fields    = <<call.id, call.text,
                      IF call.embedding = <<>> THEN <<>>
                      ELSE JsonText(call.embedding)>>

\* A row was written and read back whose text holds a quote and a comma and
\* which has an embedding of two numbers.
C27_Witness ==
  /\ call.fn = "row"
  /\ ret.done
  /\ \E j \in DOMAIN call.text : call.text[j] = Quote
  /\ \E j \in DOMAIN call.text : call.text[j] = Comma
  /\ Len(call.embedding) = 2

\* ------------------------------------------------------------------ C28

\* The vectors of an index have one dimension (and so come from one model).
Uniform(embs) ==
  \A j \in DOMAIN embs : \A k \in DOMAIN embs : embs[j].dim = embs[k].dim

\* C28 (as claimed): the vectors of an index that is available for search all
\* have the same dimension and model, also after a migration and a load that
\* adds newly generated vectors to inlined ones.
C28_UniformIndex ==
  /\ index.ready => Uniform(index.embeddings)
  /\ cindex.ready => Uniform(cindex.embeddings)

\* ------------------------------------------------------------------ C29

\* Every document position has a vector.
Complete(ds, embs) ==
  /\ Len(embs) = Len(ds)
  /\ \A k \in DOMAIN embs : embs[k] # NoVector

\* C29: an index returned by loadLibraryEmbeddings, of the JSON-cache variants
\* or of the 3-field variant, has as many vectors as documents and no missing
\* entry among them.
C29_CompleteIndex ==
  /\ index.ready => Complete(index.docs, index.embeddings)
  /\ cindex.ready => Complete(cindex.docs, cindex.embeddings)

\* The 3-field load has returned an index of two documents or more after
\* generating and saving the vectors that were missing.
C29_Witness ==
  /\ index.ready
  /\ Len(index.docs) >= 2
  /\ lastWrite = "saved"

\* ------------------------------------------------------------------ C30

\* The text and the query have a word in common that is not a stopword.
SharesToken(text, query) ==
  \E j \in DOMAIN text : \E k \in DOMAIN query :
    /\ LexLower(text[j]) = LexLower(query[k])
    /\ LexLower(text[j]) \notin LexStop

\* Document d is in the result list, and document e is behind it or missing.
RankedAbove(results, d, e) ==
  \E j \in DOMAIN results :
    /\ results[j].index = d
    /\ \A k \in DOMAIN results : results[k].index = e => k > j

\* C30: for the library and the query of the scenario the first result is the
\* document with id 2; and no document that has no non-stopword token in
\* common with the query is ranked above a document that has one.
C30_LexicalRanking ==
  (call.fn = "lex" /\ ret.done) =>
    /\ (call.rows = ScenarioRows /\ call.query = ScenarioQuery) =>
         /\ ret.results # <<>>
         /\ ret.results[1].id = StringOf(2)
    /\ \A d \in DOMAIN ret.docs : \A e \in DOMAIN ret.docs :
         (/\ ~SharesToken(ret.docs[d].text, call.query)
          /\ SharesToken(ret.docs[e].text, call.query))
           => ~RankedAbove(ret.results, d, e)

\* The scenario was searched: document 3 shares only the stopword "use" with
\* the query, document 2 shares "damp" and "cloth".
C30_Witness ==
  /\ call.fn = "lex"
  /\ ret.done
  /\ call.rows = ScenarioRows
  /\ call.query = ScenarioQuery
  /\ ~SharesToken(ret.docs[3].text, call.query)
  /\ SharesToken(ret.docs[2].text, call.query)

\* ------------------------------------------------------------------ C31

\* C31 (as claimed): rows without a text are skipped by the load: no
\* document of the load or of the index it returns has an empty text, and no
\* empty text is among the texts handed to the provider.
C31_EmptyTextSkipped ==
  /\ \A k \in DOMAIN docs : docs[k].text # <<>>
  /\ \A k \in DOMAIN index.docs : index.docs[k].text # <<>>
  /\ lpc = "loading" => \A k \in DOMAIN texts : texts[k] # <<>>

\* ------------------------------------------------------------------ C32

\* C32 (as claimed): when generateBatchEmbeddings throws, the error names the
\* batch that failed (its offset i in the input).
C32_ErrorNamesBatch ==
  gpc = "threw" => (thrown.batch.known /\ thrown.batch.index = i)

\* ------------------------------------------------------------------ C33

\* C33: the provider is called at most maxRetries times for one batch; after
\* the r-th rate-limit failure of a batch the coordinator waits r times 30
\* seconds with no provider call outstanding; and the retry counter of a batch
\* counts the rate-limit failures of that batch only.
C33_Backoff ==
  /\ gpc = "call" => Attempts(i) < maxRetries
  /\ gpc # "idle" => Attempts(i) <= maxRetries
  /\ gpc = "backoff" =>
       /\ RateLimitFails(i) >= 1
       /\ timer = RateLimitFails(i) * 30 * 1000
       /\ inflight = {}
  /\ gpc \in {"call", "backoff"} => retries = RateLimitFails(i)

\* The second batch was refused for the second time: the wait is 60 seconds.
C33_Witness ==
  /\ gpc = "backoff"
  /\ i > 0
  /\ retries = 2
  /\ timer = 60000

\* ------------------------------------------------------------------ C34

\* C34: after a batch has succeeded the coordinator waits delayMs before it
\* calls the provider for the next batch, and it does not wait after the last
\* batch; with a warm-up delay, no provider call is made before the delay has
\* elapsed.
C34_Pacing ==
  /\ [](gpc = "warmup" =>
          /\ timer = initialWaitMs
          /\ inflight = {}
          /\ log = <<>>)
  /\ [](gpc = "pause" =>
          /\ timer = delayMs
          /\ inflight = {}
          /\ i + batchSize < Len(texts)
          /\ succeeded # <<>>
          /\ succeeded[Len(succeeded)] = i)
  /\ [][ /\ (gpc' = "call" /\ gpc \notin {"call", "backoff"} /\ i' = 0) =>
              (gpc = "warmup" \/ initialWaitMs' = 0)
         /\ (gpc' = "call" /\ i' > i) =>
              (IF delayMs > 0 THEN gpc = "pause" ELSE gpc = "call")
         /\ gpc' = "returned" => gpc # "pause"
         /\ (gpc = "call" /\ Len(succeeded') > Len(succeeded)
               /\ i + batchSize < Len(texts) /\ delayMs > 0) =>
              gpc' = "pause" ]_vars

\* After a warm-up and a pause the provider is called for the second batch.
C34_Witness ==
  /\ gpc = "call"
  /\ i > 0
  /\ delayMs > 0
  /\ initialWaitMs > 0

\* ------------------------------------------------------------------ C35

\* C35: a load that follows a load which succeeded and persisted its result,
\* with the store unchanged in between, hands nothing to the provider: the
\* 3-field load finds every vector in the file, the JSON-cache load reuses the
\* cache.
C35_NoSecondPayment ==
  [][ /\ (/\ backend = "csv"
          /\ lpc = "returned"
          /\ index.ready
          /\ lastWrite # "failed"
          /\ csv' = csv
          /\ backend' = backend)
         => (lpc' = "returned" /\ gpc' = "idle" /\ index' = index)
      /\ (/\ backend = "cache"
          /\ cpc = "returned"
          /\ cindex.ready
          /\ cacheFile = JsonStringify(CacheData(cvariant, cindex.docs,
                                                 cindex.embeddings))
          /\ store2' = store2
          /\ cacheFile' = cacheFile
          /\ cvariant' = cvariant
          /\ backend' = backend)
         => /\ cpc' = "returned"
            /\ gpc' = "idle"
            /\ cindex' = [cindex EXCEPT !.reused = TRUE] ]_vars

\* A 3-field load has generated and saved two vectors, and the file is as it
\* left it: a second load can start.
C35_Witness ==
  /\ backend = "csv"
  /\ lpc = "returned"
  /\ index.ready
  /\ lastWrite = "saved"
  /\ Len(index.docs) >= 2
  /\ gpc = "idle"

\* ------------------------------------------------------------------ C36

\* C36 (as claimed): in the file migrateToNewFormat has written, a row has a
\* vector only if the cache file holds that vector for a document with the
\* row's id and text; where the cache's documents differ from the store's,
\* the row's embedding is empty.
C36_SameDocument ==
  (backend = "csv" /\ lpc = "idle" /\ JsonParses(cacheFile)) =>
    \A p \in DOMAIN csv :
      csv[p].emb # EmptyField =>
        \E k \in DOMAIN JsonParse(cacheFile).docs :
          /\ JsonParse(cacheFile).docs[k].id = csv[p].id
          /\ JsonParse(cacheFile).docs[k].text = csv[p].text
          /\ k <= Len(JsonParse(cacheFile).embeddings)
          /\ JsonParse(cacheFile).embeddings[k] = ParseEmbedding(csv[p].emb)

\* ------------------------------------------------------------------ C38

\* C38 (as claimed): when DatabaseClient.addTexts has raised an error, the
\* table holds none of the texts of that call: it has the rows it had before.
C38_AllOrNothing ==
  (backend = "db" /\ addCtx.active /\ dpc = "failed") =>
    Len(db) = Len(addCtx.old)

\* ------------------------------------------------------------------ C37

\* C37 (as claimed): the original_ids of the committed rows of text_library
\* are pairwise distinct, also when two calls of addTexts overlap.
C37_DistinctIds ==
  backend = "db" =>
    \A j \in DOMAIN db : \A k \in DOMAIN db :
      db[j].original_id = db[k].original_id => j = k

\* ------------------------------------------------------------------ C40

\* The offsets of the batches for which the first run has called the
\* provider: those that succeeded (they stay known when the call has returned
\* and the run is in its UPDATE loop), and the one at the loop's offset once
\* its call is outstanding or answered.
Requested ==
  {succeeded[k] : k \in DOMAIN succeeded}
  \cup {off \in {i} : i \in inflight \/ \E k \in DOMAIN log : log[k].off = i}

\* The rows whose texts the first run has sent to the provider: those of the
\* batches it has called the provider for, each of the batch size the run
\* passes (databaseClient.js:193), from the rows it selected.
SentByFirst ==
  {idsToProcess[p] : p \in {q \in DOMAIN idsToProcess :
     \E off \in Requested : q > off /\ q <= off + DbBatchSize}}

\* C40 (as claimed): of two runs of generateMissingEmbeddings that overlap,
\* at most one sends the text of a row to the provider.
C40_NoDoubleEmbedding ==
  (backend = "db" /\ other.pc = "done" /\ dpc \in {"embedding", "writing"}) =>
    \A k \in DOMAIN other.docs : other.docs[k].id \notin SentByFirst

\* ------------------------------------------------------------------ C39

\* The rows of the file that have a text, in the file's order.
RowsWithText == SelectSeq(csv, LAMBDA row : Trim(row.text) # <<>>)

\* C39: the migration inserts all valid rows or none. After a failed insert
\* (or COMMIT) the table is as it was before the migration; after a
\* successful one the table has one more row for each valid row of the file,
\* in the file's order.
C39_MigrationAllOrNothing ==
  backend = "db" =>
    /\ dpc \in {"initializing", "counting", "asking", "cancelled", "nodata",
                "connecting", "beginning", "migrating", "rolledback"}
         => db = snapshot
    /\ dpc = "nodata" => RowsWithText = <<>>
    /\ dpc \in {"connecting", "beginning", "migrating"} => RowsWithText # <<>>
    /\ dpc = "migrated" =>
         /\ Len(db) = Len(snapshot) + Len(RowsWithText)
         /\ SubSeq(db, 1, Len(snapshot)) = snapshot
         /\ \A k \in 1..Len(RowsWithText) :
              /\ db[Len(snapshot) + k].text = Trim(RowsWithText[k].text)
              /\ db[Len(snapshot) + k].original_id = RowsWithText[k].id

\* The migration of a file with two valid rows was rolled back, beside a
\* table that held a row already.
C39_Witness ==
  /\ backend = "db"
  /\ dpc = "rolledback"
  /\ Len(RowsWithText) = 2
  /\ Len(snapshot) = 1
  /\ db = snapshot

====
